---- MODULE Spec2Model ----
(***************************************************************************)
(* A model of the retrieval-augmented chat service of this repository:     *)
(* IntegratedChatService (sessions, sendMessage and its await points),     *)
(* the pattern tests it classifies and plans with, and the document search *)
(* of VectorDatabaseService it calls.                                      *)
(***************************************************************************)
EXTENDS Integers, Sequences, FiniteSets, TLC

(***************************************************************************)
(* Text: JavaScript strings are TLA+ strings; Ch(s, i) is s.charAt(i-1).   *)
(***************************************************************************)
Ch(s, i) == SubSeq(s, i, i)

UpperChars == "ABCDEFGHIJKLMNOPQRSTUVWXYZ"
LowerChars == "abcdefghijklmnopqrstuvwxyz"
DigitChars == "0123456789_"

\* The case folding of the regular expressions' i flag, on ASCII letters.
Lower(c) ==
    IF \E i \in 1..Len(UpperChars) : Ch(UpperChars, i) = c
    THEN Ch(LowerChars, CHOOSE i \in 1..Len(UpperChars) : Ch(UpperChars, i) = c)
    ELSE c

\* \s of a regular expression (the white space the inputs here can hold).
IsSpace(c) == c \in {" ", "\t", "\n"}

\* \w of a regular expression: [A-Za-z0-9_].
IsWordChar(c) ==
    \/ \E i \in 1..Len(LowerChars) : Ch(LowerChars, i) = Lower(c)
    \/ \E i \in 1..Len(DigitChars) : Ch(DigitChars, i) = c

\* \b of a regular expression, at the position before s[i] (i in 1..Len(s)+1).
WordBoundary(s, i) ==
    LET before == i > 1 /\ IsWordChar(Ch(s, i - 1))
        after  == i <= Len(s) /\ IsWordChar(Ch(s, i))
    IN  before # after

\* String.prototype.trim.
RECURSIVE TrimLeft(_)
TrimLeft(s) ==
    IF Len(s) > 0 /\ IsSpace(Ch(s, 1)) THEN TrimLeft(SubSeq(s, 2, Len(s))) ELSE s

RECURSIVE TrimRight(_)
TrimRight(s) ==
    IF Len(s) > 0 /\ IsSpace(Ch(s, Len(s)))
    THEN TrimRight(SubSeq(s, 1, Len(s) - 1)) ELSE s

Trim(s) == TrimRight(TrimLeft(s))

(***************************************************************************)
(* Regular expressions.  A pattern is a sequence of tokens: a lower-case   *)
(* character (matched ignoring case), "S+" for \s+ and "S*" for \s*.       *)
(***************************************************************************)
Lit(str) == [i \in 1..Len(str) |-> Ch(str, i)]

\* The positions at which a match of pat[k..] that starts at s[i] can end
\* (the index of the first character after the match).
RECURSIVE MatchFrom(_, _, _, _)
MatchFrom(pat, k, s, i) ==
    IF k > Len(pat) THEN {i}
    ELSE IF pat[k] \in {"S+", "S*"}
    THEN LET least == IF pat[k] = "S+" THEN i + 1 ELSE i
             stops == {j \in least..(Len(s) + 1) :
                          \A t \in i..(j - 1) : IsSpace(Ch(s, t))}
         IN  UNION {MatchFrom(pat, k + 1, s, j) : j \in stops}
    ELSE IF i <= Len(s) /\ Lower(Ch(s, i)) = pat[k]
    THEN MatchFrom(pat, k + 1, s, i + 1)
    ELSE {}

\* Mutant of TestPrefix: the pattern is anchored at both ends.
TestPrefixToEnd(alts, s) == \E p \in alts : (Len(s) + 1) \in MatchFrom(p, 1, s, 1)

\* /^(a|b|...)/i.test(s)
TestPrefix(alts, s) == \E p \in alts : MatchFrom(p, 1, s, 1) # {}

\* /^(a|b|...)$/i.test(s)
TestWhole(alts, s) == \E p \in alts : (Len(s) + 1) \in MatchFrom(p, 1, s, 1)

\* /(a|b|...)/i.test(s)
TestSearch(alts, s) ==
    \E p \in alts : \E i \in 1..(Len(s) + 1) : MatchFrom(p, 1, s, i) # {}

\* /\b(a|b|...)\b/i.test(s)
TestWord(alts, s) ==
    \E p \in alts : \E i \in 1..(Len(s) + 1) :
        /\ WordBoundary(s, i)
        /\ \E e \in MatchFrom(p, 1, s, i) : WordBoundary(s, e)

(***************************************************************************)
(* The fields of IntegratedChatService.                                    *)
(***************************************************************************)
greetingResponses ==
    << "Hi, How can I help you?",
       "Hello! How can I assist you today?",
       "Hi there! What can I help you with?",
       "Hey! Do you need any help?" >>

thankYouResponse == "You're welcome!"

irrelevantQueryResponse ==
    "Sorry, I can only help you with this application. Please ask any queries related to the application."

apologyResponse ==
    "I apologize, but I encountered an error while processing your request. Please try again."

GreetingWords == {Lit("hi"), Lit("hai"), Lit("hello"), Lit("hey")}

greetingPatterns ==
    << GreetingWords \cup
         { Lit("good") \o <<"S+">> \o Lit("morning"),
           Lit("good") \o <<"S+">> \o Lit("afternoon"),
           Lit("good") \o <<"S+">> \o Lit("evening") },
       { <<"S*">> \o w \o <<"S*">> : w \in GreetingWords } >>

thankYouPatterns ==
    { Lit("thank") \o <<"S*">> \o Lit("you"),
      Lit("thanks"), Lit("good job"), Lit("well done"),
      Lit("super"), Lit("great"), Lit("appreciate") }

questionPatterns ==
    { Lit("what"), Lit("how"), Lit("where"), Lit("when"), Lit("why"),
      Lit("which"), Lit("tell me"), Lit("show me"), Lit("give"),
      Lit("generate"), Lit("say"), Lit("who"), Lit("explain"),
      Lit("describe"), Lit("list") }

listQueryPatterns ==
    { Lit("list"), Lit("pins"), Lit("pin"), Lit("what are the"), Lit("list the") }

\* The two patterns of listMergeInstruction (line 332).
listMergePatterns ==
    { Lit("list"), Lit("pins"), Lit("pin"), Lit("what are the"),
      Lit("power and ground"), Lit("power pins"), Lit("ground pins"),
      Lit("what"), Lit("how"), Lit("where"), Lit("when"), Lit("why"),
      Lit("which"), Lit("tell me"), Lit("show me"), Lit("explain"),
      Lit("describe") }

\* The messages sendMessage is called with: one of each kind (greeting,
\* thanks, question cue, list cue, no cue).
Messages ==
    { "Hello there!", "thanks a lot", "What is the maximum voltage?",
      "pin map", "maximum voltage" }

\* Messages for a single call, around the edges of the two vocabularies:
\* case, white space, a vocabulary word that is only the start of another
\* word or is not at the start, both vocabularies at once, and questions.
ClassifyInputs ==
    { "hi", " Hi ", "HELLO", "hai", "hey!", "Hello there!", "good morning",
      "Good   evening team", "good afternoon", "high voltage limits",
      "hi, thanks", "hello, great job", "Hey thank you",
      "thanks a lot", "thank you", "Thankyou", "thank  you", "ok great",
      "well done", "good job", "super", "much appreciated",
      "What is a super capacitor?",
      "What is the maximum voltage?", "pin map", "maximum voltage",
      "goodmorning", "good night", "say hello", "oh hi", "thank",
      "list the pins" }

\* The four pattern tests of sendMessage, tabulated over the messages.
PatternTests ==
    [m \in Messages \cup ClassifyInputs |->
        [greeting |-> \/ TestPrefix(greetingPatterns[1], Trim(m))
                      \/ TestWhole(greetingPatterns[2], Trim(m)),
         thanks   |-> TestSearch(thankYouPatterns, Trim(m)),
         question |-> TestWord(questionPatterns, m),
         list     |-> TestWord(listQueryPatterns, m),
         merge    |-> TestWord(listMergePatterns, m)]]

isGreeting(message) == PatternTests[message].greeting

isThankYou(message) == PatternTests[message].thanks

hasQuestionWords(message) == PatternTests[message].question

isListQuery(message) == PatternTests[message].list

\* topK and minScore of the strict search (scores in hundredths: 15 is 0.15).
BroadTopK == 15
NarrowTopK == 8
BroadMinScore == 15
NarrowMinScore == 25
RelaxedTopK == 15
RelaxedMinScore == 10

\* Mutant of TopKFor: only the list cues broaden the search.
TopKListOnly(message) ==
    IF isListQuery(message) THEN BroadTopK ELSE NarrowTopK

TopKFor(message) ==
    IF isListQuery(message) \/ hasQuestionWords(message) THEN BroadTopK ELSE NarrowTopK

MinScoreFor(message) ==
    IF isListQuery(message) \/ hasQuestionWords(message)
    THEN BroadMinScore ELSE NarrowMinScore

\* Mutant of NeedsRelaxed: the threshold is 0.15 for 0.1.
NeedsRelaxedAbove15(relevantDocs, minScore) ==
    Len(relevantDocs) = 0 /\ minScore > BroadMinScore

\* relevantDocs.length === 0 && minScore > 0.1
NeedsRelaxed(relevantDocs, minScore) ==
    Len(relevantDocs) = 0 /\ minScore > RelaxedMinScore

(***************************************************************************)
(* Bounds and the inputs the model draws from.                             *)
(***************************************************************************)
MaxReq == 2        \* sendMessage requests issued in one behaviour
MaxSessions == 2   \* sessions created in one behaviour
MaxDocs == 2       \* matches the vector database returns for one query

Requests == 1..MaxReq
SessionIds == 1..MaxSessions
NoSession == 0     \* a session id no createSession ever returned; also undefined

\* Cosine scores the vector database reports, in hundredths, on each side
\* of the three thresholds 0.1, 0.15 and 0.25.
ScoreValues == {5, 12, 20, 30}

DocContent(d) == IF d = 1 THEN "Output voltage is 5V." ELSE "Pin " \o ToString(d) \o " is GND."

\* Ranked lists of document records: the document ranked i-th has id i,
\* and scores strictly descend.
RankedMatches ==
    LET Match == [id : 1..MaxDocs, score : ScoreValues]
    IN  UNION { { q \in [1..k -> Match] :
                    /\ \A i \in 1..k : q[i].id = i
                    /\ \A i \in 1..(k - 1) : q[i].score > q[i + 1].score }
                : k \in 0..MaxDocs }

\* queryResponse.matches of index.query({vector, topK, filter: {type: 'document'}}):
\* at most topK document records, ranked by descending score.
BackendMatches(topK) == {q \in RankedMatches : Len(q) <= topK}

\* Mutant of searchDocuments: the score test is missing.
searchDocumentsUnfiltered(matches, minScore) ==
    [i \in 1..Len(matches) |->
        [id |-> matches[i].id, score |-> matches[i].score,
         content |-> DocContent(matches[i].id)]]

\* VectorDatabaseService.searchDocuments, given what the backend answered.
searchDocuments(matches, minScore) ==
    LET kept == SelectSeq(matches, LAMBDA m : m.score >= minScore)
    IN  [i \in 1..Len(kept) |->
            [id |-> kept[i].id, score |-> kept[i].score,
             content |-> DocContent(kept[i].id)]]

\* Mutant of JoinContents: the contents are joined from the last document
\* to the first.
RECURSIVE JoinContentsReversed(_)
JoinContentsReversed(docs) ==
    IF Len(docs) = 0 THEN ""
    ELSE IF Len(docs) = 1 THEN docs[1].content
    ELSE docs[Len(docs)].content \o "\n\n"
         \o JoinContentsReversed(SubSeq(docs, 1, Len(docs) - 1))

\* finalDocs.map(doc => doc.metadata.content).join('\n\n')
RECURSIVE JoinContents(_)
JoinContents(docs) ==
    IF Len(docs) = 0 THEN ""
    ELSE IF Len(docs) = 1 THEN docs[1].content
    ELSE docs[1].content \o "\n\n" \o JoinContents(Tail(docs))

\* What the language model may complete with; "" stands for no content.
LLMCompletions == {"The output voltage is 5V.", ""}

noCompletionResponse == "Sorry, I couldn't generate a response."

\* completion.choices[0]?.message?.content || 'Sorry, I couldn\'t generate a response.'
responseContent(completion) ==
    IF completion = "" THEN noCompletionResponse ELSE completion

(***************************************************************************)
(* State.                                                                  *)
(***************************************************************************)
VARIABLES
    sessions,       \* the keys of the Map `sessions`
    messages,       \* messages[s]: the messages array of the ChatSession object s
    created,        \* how many sessions createSession has made (ids are fresh)
    vectorService,  \* whether this.vectorService is set
    pc,             \* where each sendMessage call is
    frame,          \* the arguments and locals of each sendMessage call
    calls,          \* the collaborator calls each sendMessage call has made
    search,         \* a searchDocuments call of VectorDatabaseService, on its own
    chatService,    \* main.js: whether chatService is set (not null)
    ipc,            \* main.js: what the chat:* handlers have returned
    embedder,       \* a LocalEmbeddingService and the generateEmbedding calls on it
    vdb,            \* the Pinecone indexes and the initializeIndex calls
    chunker,        \* a chunkText call of SimpleDocumentProcessingService, on its own
    ingest,         \* a processAllDocuments run of SimpleDocumentProcessingService
    startup,        \* the configuration and the initialize call of IntegratedChatService
    store,          \* the records of the index and the last VectorDatabaseService call on it
    simple          \* SimpleChatService: its default model, sessions and sendMessage calls

\* The state outside IntegratedChatService's sessions and sendMessage calls.
outside == <<search, chatService, ipc, embedder, vdb, chunker, ingest, startup, store, simple>>

vars == <<sessions, messages, created, vectorService, pc, frame, calls, outside>>

NoDocs == <<[id |-> 0, score |-> 0, content |-> "unset"]>>
NoPrompt == [context |-> "", question |-> "", chatHistory |-> <<>>]
NoMessage == [role |-> "none", content |-> "", req |-> 0]

\* A call that has not started.  In a call that has returned, the locals
\* are gone: what is left is its arguments, the session it found, the
\* return statement it took (site) and the message it returned (response).
IdleFrame ==
    [message |-> "", sessionId |-> NoSession, session |-> NoSession,
     minScore |-> 0, finalDocs |-> NoDocs, prompt |-> NoPrompt,
     site |-> "none", response |-> NoMessage]

\* createUserMessage / createAssistantMessage; req stands for the unique id.
createUserMessage(r, content) == [role |-> "user", content |-> content, req |-> r]
createAssistantMessage(r, content) ==
    [role |-> "assistant", content |-> content, req |-> r]

\* Mutant of Push: the message goes to the front (unshift for push).
PushFront(list, m) == <<m>> \o list

\* Mutant of Push: the message takes the place of the last one of the list.
PushOver(list, m) ==
    IF list = <<>> THEN <<m>> ELSE [list EXCEPT ![Len(list)] = m]

\* Array.prototype.push
Push(list, m) == Append(list, m)

\* No searchDocuments call yet.
IdleSearch ==
    [stage |-> "idle", index |-> {}, topK |-> 0, minScore |-> 0,
     query |-> [topK |-> 0, filter |-> "none"], matches |-> <<>>,
     results |-> <<>>, error |-> ""]

\* No handler has returned.
NoData == [kind |-> "none"]
NoResult == [channel |-> "none", outcome |-> "none", data |-> NoData, error |-> ""]
NoIpc == [last |-> NoResult, sent |-> [r \in Requests |-> NoResult]]

\* A new IntegratedChatService, with or without Pinecone keys.
ChatInit ==
    /\ sessions = {}
    /\ messages = [s \in SessionIds |-> <<>>]
    /\ created = 0
    /\ vectorService \in BOOLEAN
    /\ pc = [r \in Requests |-> "idle"]
    /\ frame = [r \in Requests |-> IdleFrame]
    /\ calls = [r \in Requests |-> <<>>]

\* A call of generateEmbedding that has not started, and a new
\* LocalEmbeddingService: model = null (0), nothing loaded.
NoEmbedding == [length |-> 0, writes |-> <<>>, normalized |-> FALSE]
IdleEmbedCall ==
    [pc |-> "idle", text |-> "", status |-> "none", source |-> "none",
     embedding |-> NoEmbedding]
NewEmbedder ==
    [model |-> 0, loads |-> 0, assigned |-> 0,
     call |-> [c \in Requests |-> IdleEmbedCall]]

\* An initializeIndex call that has not started; i is the loop variable of
\* waitForIndexReady, polls and waits count its describeIndexStats calls
\* and its 5-second timers, creates its createIndex calls.
IdleIndexCall ==
    [pc |-> "idle", sawExisting |-> FALSE, creates |-> 0, polls |-> 0,
     waits |-> 0, i |-> 0, error |-> ""]

\* The indexes of the Pinecone project, and the calls made so far:
\* initializeIndex calls started, createIndex calls issued, createIndex
\* calls that succeeded and that threw.
VdbWith(indexes) ==
    [indexes |-> indexes, started |-> 0, creates |-> 0, created |-> 0,
     createFailures |-> 0, call |-> IdleIndexCall]

\* No chunkText call.
NoChunking == [text |-> "", filename |-> "", returned |-> FALSE, chunks |-> <<>>]

\* No processAllDocuments run: the documents folder (whether it exists, its
\* files in the order readdirSync gives them), and of the run: where it is,
\* the supported files and the one it is at, the chunks of that file and
\* the one it is at, the upserts issued and the records stored, the files
\* it went through, what console.error logged and the error it threw.
NoIngest ==
    [exists |-> FALSE, files |-> <<>>, pc |-> "idle", supportedFiles |-> <<>>,
     file |-> 0, chunks |-> <<>>, chunk |-> 0, upserts |-> 0, stored |-> <<>>,
     processed |-> <<>>, logged |-> <<>>, error |-> ""]

\* private defaultModel of ChatbotService, defaultModel of SimpleChatService.
defaultModel == "llama-3.1-8b-instant"

\* preferredModels of SimpleChatService.initialize.
preferredModels ==
    <<"llama-3.1-8b-instant", "llama-3.3-70b-versatile", "gemma2-9b-it",
      "mixtral-8x7b-32768">>

\* Lists of model ids the backend may report: none of the preferred ones,
\* all of them, and lists that miss the first ones.
ModelLists ==
    {{}, {"whisper-large-v3"},
     {preferredModels[i] : i \in 1..4},
     {preferredModels[2], preferredModels[4], "whisper-large-v3"},
     {preferredModels[3]}}

\* SimpleChatService.initialize, lines 28-35: the first preferred model
\* that is available, or the default model as it was.
SelectModel(current, availableModels) ==
    LET found == {i \in 1..Len(preferredModels) :
                     preferredModels[i] \in availableModels}
    IN  IF found = {} THEN current
        ELSE preferredModels[CHOOSE i \in found : \A j \in found : i <= j]

\* The constructor arguments (whether the Pinecone key and index name are
\* there), this.documentService, where initialize is, what the connection
\* test of the language model gave, why the vector features were given up
\* ("none" when they were not), and the processAllDocuments runs that
\* processDocuments started and refused.  With NotConstructed the service is
\* taken as it is after a completed initialize.  models is what
\* groq.models.list() gave the connection test, defaultModel the
\* defaultModel of the ChatbotService.
NotConstructed ==
    [pineconeApiKey |-> TRUE, pineconeIndexName |-> TRUE, documentService |-> TRUE,
     pc |-> "done", chatbotConnected |-> TRUE, reason |-> "none",
     ingestions |-> 0, refused |-> 0, models |-> {}, defaultModel |-> defaultModel]

\* The ids of the index: one for a document chunk, two for chat messages.
DocumentIds == {1}
MessageIds == {2, 3}

\* No record under an id, no call yet: the call made last with the length
\* of the vector it handed to the database (0 for none), the filter of its
\* query ("" for a field that is not set), whether it returned or threw,
\* and what it returned.
Absent == [type |-> "absent", userId |-> "", sessionId |-> "", score |-> 0,
           dimension |-> 0]
NoFilter == [type |-> "", userId |-> "", sessionId |-> ""]
NoCall ==
    [op |-> "none", vector |-> 0, filter |-> NoFilter, outcome |-> "none",
     results |-> <<>>, deleted |-> {}]
EmptyStore ==
    [index |-> [id \in DocumentIds \cup MessageIds |-> Absent], last |-> NoCall]

\* A sendMessage call of SimpleChatService: where it is, the session object
\* it holds, the request it sent to the language model, and the message it
\* returned or the Error it threw.
IdleSimpleCall ==
    [pc |-> "idle", session |-> NoSession, model |-> "", messages |-> <<>>,
     returned |-> NoMessage, error |-> ""]

\* SimpleChatService after its constructor: the default model, where
\* initialize is, the keys of the sessions Map, the ids handed out, the
\* messages of each session object and the sendMessage calls.
NewSimple ==
    [defaultModel |-> defaultModel, init |-> "new", sessions |-> {},
     created |-> 0, messages |-> [s \in SessionIds |-> <<>>],
     call |-> [r \in Requests |-> IdleSimpleCall]]

Init ==
    /\ ChatInit
    /\ search = IdleSearch
    /\ chatService = TRUE
    /\ ipc = NoIpc
    /\ embedder = NewEmbedder
    /\ vdb = VdbWith({})
    /\ chunker = NoChunking
    /\ ingest = NoIngest
    /\ startup = NotConstructed
    /\ store = EmptyStore
    /\ simple = NewSimple

(***************************************************************************)
(* createSession and deleteSession.                                        *)
(***************************************************************************)
CreateSession ==
    /\ created < MaxSessions
    /\ created' = created + 1
    /\ sessions' = sessions \cup {created + 1}
    /\ UNCHANGED <<messages, vectorService, pc, frame, calls, outside>>

DeleteSession(sessionId) ==
    /\ sessionId \in sessions
    /\ sessions' = sessions \ {sessionId}
    /\ UNCHANGED <<messages, created, vectorService, pc, frame, calls, outside>>

(***************************************************************************)
(* sendMessage.  JavaScript runs a call without interruption up to its     *)
(* next await, so each action is the code from one await to the next.      *)
(***************************************************************************)

\* Mutant of GetSession: the key is ignored and the first session of the
\* Map is returned.
GetFirstSession(sessionId) ==
    IF sessions = {} THEN NoSession
    ELSE CHOOSE s \in sessions : \A t \in sessions : s <= t

\* Mutant of GetSession: for a key that is absent another session of the
\* Map is returned.
GetOtherSession(sessionId) ==
    IF sessionId \in sessions THEN sessionId
    ELSE IF sessions = {} THEN NoSession
    ELSE CHOOSE s \in sessions : \A t \in sessions : s <= t

\* this.sessions.get(sessionId), undefined when the key is absent.
GetSession(sessionId) == IF sessionId \in sessions THEN sessionId ELSE NoSession

\* The log of a searchDocuments call and of what came back: status is
\* "pending" until the call is back, then "ok" with the number of results
\* in found, or "error" when it threw.
SearchCall(topK, minScore) ==
    [op |-> "search", topK |-> topK, minScore |-> minScore,
     status |-> "pending", found |-> 0]

Returned(log, status, found) ==
    [log EXCEPT ![Len(log)].status = status, ![Len(log)].found = found]

\* The return of sendMessage at the return statement `site`: response is
\* pushed onto the messages of `target` (when there is one) in the lists
\* `lists`, and returned.
Return(r, lists, target, content, site) ==
    LET response == createAssistantMessage(r, content)
    IN  /\ messages' = IF target = NoSession THEN lists
                       ELSE [lists EXCEPT ![target] = Push(@, response)]
        /\ frame' = [frame EXCEPT ![r] =
                        [IdleFrame EXCEPT !.message = frame[r].message,
                                          !.sessionId = frame[r].sessionId,
                                          !.session = frame[r].session,
                                          !.site = site,
                                          !.response = response]]
        /\ pc' = [pc EXCEPT ![r] = "done"]

\* Mutant of CatchError: the apology is returned but pushed nowhere.
CatchErrorNoPush(r, sessionId) ==
    Return(r, messages, NoSession, apologyResponse, "catch")

\* Lines 397-412: the catch of sendMessage looks the session up again.
CatchError(r, sessionId) ==
    Return(r, messages, GetSession(sessionId), apologyResponse, "catch")

\* Lines 207-211: the session is not in the Map; the throw lands in the catch.
StartMissing(r, message, sessionId) ==
    /\ pc[r] = "idle"
    /\ \A q \in Requests : q < r => pc[q] # "idle"
    /\ GetSession(sessionId) = NoSession
    /\ LET response == createAssistantMessage(r, apologyResponse)
       IN  /\ frame' = [frame EXCEPT ![r] =
                          [IdleFrame EXCEPT !.message = message,
                                            !.sessionId = sessionId,
                                            !.site = "catch",
                                            !.response = response]]
           /\ pc' = [pc EXCEPT ![r] = "done"]
    /\ UNCHANGED <<sessions, messages, created, vectorService, calls, outside>>

\* Mutant of ShortCircuit: the thank-you test comes first.
ShortCircuitThanksFirst(message) ==
    IF isThankYou(message) THEN "thanks"
    ELSE IF isGreeting(message) THEN "greeting"
    ELSE "none"

\* Mutant of ShortCircuit: the thank-you test is missing.
ShortCircuitGreetingOnly(message) ==
    IF isGreeting(message) THEN "greeting" ELSE "none"

\* Lines 219-233: the template reply a message gets before any retrieval.
ShortCircuit(message) ==
    IF isGreeting(message) THEN "greeting"
    ELSE IF isThankYou(message) THEN "thanks"
    ELSE "none"

\* Lines 207-243: from the call to the first await (or to the return).
Start(r, message, sessionId) ==
    /\ pc[r] = "idle"
    /\ \A q \in Requests : q < r => pc[q] # "idle"
    /\ GetSession(sessionId) # NoSession
    /\ LET session == GetSession(sessionId)
           pushed == [messages EXCEPT
                        ![session] = Push(@, createUserMessage(r, message))]
           reply(content, site) ==
               LET response == createAssistantMessage(r, content)
               IN  /\ messages' = [pushed EXCEPT ![session] = Push(@, response)]
                   /\ frame' = [frame EXCEPT ![r] =
                                  [IdleFrame EXCEPT !.message = message,
                                                    !.sessionId = sessionId,
                                                    !.session = session,
                                                    !.site = site,
                                                    !.response = response]]
                   /\ pc' = [pc EXCEPT ![r] = "done"]
                   /\ UNCHANGED calls
       IN  IF ShortCircuit(message) = "greeting"
           THEN \E randomIndex \in 1..Len(greetingResponses) :
                    reply(greetingResponses[randomIndex], "greeting")
           ELSE IF ShortCircuit(message) = "thanks"
           THEN reply(thankYouResponse, "thanks")
           ELSE IF ~vectorService
           THEN reply(irrelevantQueryResponse, "noVectorService")
           ELSE /\ messages' = pushed
                /\ frame' = [frame EXCEPT ![r] =
                               [IdleFrame EXCEPT !.message = message,
                                                 !.sessionId = sessionId,
                                                 !.session = session]]
                /\ calls' = [calls EXCEPT ![r] = Append(@, [op |-> "embed"])]
                /\ pc' = [pc EXCEPT ![r] = "awaitEmbed"]
    /\ UNCHANGED <<sessions, created, vectorService, outside>>

\* Lines 242-267: the embedding is back; plan and issue the strict search.
EmbedReturn(r) ==
    /\ pc[r] = "awaitEmbed"
    /\ LET topK == TopKFor(frame[r].message)
           minScore == MinScoreFor(frame[r].message)
       IN  /\ frame' = [frame EXCEPT ![r].minScore = minScore]
           /\ calls' = [calls EXCEPT ![r] =
                          Append(@, SearchCall(topK, minScore))]
    /\ pc' = [pc EXCEPT ![r] = "awaitStrict"]
    /\ UNCHANGED <<sessions, messages, created, vectorService, outside>>

\* Mutant of Compose: the test for no documents is missing.
ComposeAlways(r, finalDocs, log) ==
    /\ frame' = [frame EXCEPT
                    ![r].finalDocs = finalDocs,
                    ![r].prompt = [context |-> JoinContents(finalDocs),
                                   question |-> frame[r].message,
                                   chatHistory |-> <<>>]]
    /\ calls' = [calls EXCEPT ![r] = Append(log, [op |-> "llm"])]
    /\ pc' = [pc EXCEPT ![r] = "awaitLLM"]
    /\ UNCHANGED messages

\* Mutant of Compose: the messages of the session are handed over as the
\* chat history.
ComposeWithHistory(r, finalDocs, log) ==
    IF Len(finalDocs) = 0
    THEN /\ Return(r, messages, frame[r].session, irrelevantQueryResponse, "empty")
         /\ calls' = [calls EXCEPT ![r] = log]
    ELSE /\ frame' = [frame EXCEPT
                        ![r].finalDocs = finalDocs,
                        ![r].prompt = [context |-> JoinContents(finalDocs),
                                       question |-> frame[r].message,
                                       chatHistory |-> messages[frame[r].session]]]
         /\ calls' = [calls EXCEPT ![r] = Append(log, [op |-> "llm"])]
         /\ pc' = [pc EXCEPT ![r] = "awaitLLM"]
         /\ UNCHANGED messages

\* Mutant of Compose: with documents found the retrieval starts over
\* instead of calling the model.
ComposeAgain(r, finalDocs, log) ==
    IF Len(finalDocs) = 0
    THEN /\ Return(r, messages, frame[r].session, irrelevantQueryResponse, "empty")
         /\ calls' = [calls EXCEPT ![r] = log]
    ELSE /\ calls' = [calls EXCEPT ![r] = <<[op |-> "embed"]>>]
         /\ pc' = [pc EXCEPT ![r] = "awaitEmbed"]
         /\ UNCHANGED <<messages, frame>>

\* Lines 284-385: with finalDocs known, refuse or compose and call the
\* model.  log is the log of the calls, the search that just came back
\* included.
Compose(r, finalDocs, log) ==
    IF Len(finalDocs) = 0
    THEN /\ Return(r, messages, frame[r].session, irrelevantQueryResponse, "empty")
         /\ calls' = [calls EXCEPT ![r] = log]
    ELSE /\ frame' = [frame EXCEPT
                        ![r].finalDocs = finalDocs,
                        ![r].prompt = [context |-> JoinContents(finalDocs),
                                       question |-> frame[r].message,
                                       chatHistory |-> <<>>]]
         /\ calls' = [calls EXCEPT ![r] = Append(log, [op |-> "llm"])]
         /\ pc' = [pc EXCEPT ![r] = "awaitLLM"]
         /\ UNCHANGED messages

\* Mutant of SearchFailed: the refusal is returned but pushed nowhere.
SearchFailedNoPush(r) ==
    /\ Return(r, messages, NoSession, irrelevantQueryResponse, "searchError")
    /\ calls' = [calls EXCEPT ![r] = Returned(@, "error", 0)]

\* Mutant of SearchFailed: a search that threw is issued once more before
\* the refusal is returned.
SearchFailedRetry(r) ==
    IF Len(calls[r]) < 4
    THEN /\ calls' = [calls EXCEPT ![r] =
                        Append(Returned(@, "error", 0),
                               SearchCall(calls[r][Len(calls[r])].topK,
                                          calls[r][Len(calls[r])].minScore))]
         /\ UNCHANGED <<messages, frame, pc>>
    ELSE /\ Return(r, messages, frame[r].session, irrelevantQueryResponse,
                   "searchError")
         /\ calls' = [calls EXCEPT ![r] = Returned(@, "error", 0)]

\* Mutant of SearchFailed: the failed search is answered with the apology.
SearchFailedApology(r) ==
    /\ Return(r, messages, frame[r].session, apologyResponse, "searchError")
    /\ calls' = [calls EXCEPT ![r] = Returned(@, "error", 0)]

\* Lines 315-322: a failed search is answered with the refusal sentence.
SearchFailed(r) ==
    /\ Return(r, messages, frame[r].session, irrelevantQueryResponse, "searchError")
    /\ calls' = [calls EXCEPT ![r] = Returned(@, "error", 0)]

\* Lines 263-282: the strict search is back.
StrictReturn(r) ==
    /\ pc[r] = "awaitStrict"
    /\ \/ \E matches \in BackendMatches(calls[r][Len(calls[r])].topK) :
            LET relevantDocs == searchDocuments(matches, frame[r].minScore)
                log == Returned(calls[r], "ok", Len(relevantDocs))
            IN  IF NeedsRelaxed(relevantDocs, frame[r].minScore)
                THEN /\ calls' = [calls EXCEPT ![r] =
                                    Append(log, SearchCall(RelaxedTopK,
                                                           RelaxedMinScore))]
                     /\ pc' = [pc EXCEPT ![r] = "awaitRelaxed"]
                     /\ UNCHANGED <<messages, frame>>
                ELSE Compose(r, relevantDocs, log)
       \/ SearchFailed(r)
    /\ UNCHANGED <<sessions, created, vectorService, outside>>

\* Lines 275-282: the relaxed search is back.
RelaxedReturn(r) ==
    /\ pc[r] = "awaitRelaxed"
    /\ \/ \E matches \in BackendMatches(RelaxedTopK) :
            LET relaxedDocs == searchDocuments(matches, RelaxedMinScore)
            IN  Compose(r, relaxedDocs, Returned(calls[r], "ok", Len(relaxedDocs)))
       \/ SearchFailed(r)
    /\ UNCHANGED <<sessions, created, vectorService, outside>>

\* Lines 378-412: the language model is back, with a completion or an error.
LLMReturn(r) ==
    /\ pc[r] = "awaitLLM"
    /\ \/ \E completion \in LLMCompletions :
            Return(r, messages, frame[r].session, responseContent(completion),
                   "answered")
       \/ CatchError(r, frame[r].sessionId)
    /\ UNCHANGED <<sessions, created, vectorService, calls, outside>>

\* A sendMessage call with a message of `texts`, for a session of the Map
\* or for a session id that is not in it.
Send(r, texts) ==
    \E m \in texts, s \in sessions \cup {NoSession} :
        Start(r, m, s) \/ StartMissing(r, m, s)

\* The messages of the concurrent runs: one answered before the first
\* await and one that goes through every await.
ConcurrentMessages == {"thanks a lot", "What is the maximum voltage?"}

\* Calls from any number of clients: a call may start while others wait.
Next ==
    \/ CreateSession
    \/ \E s \in SessionIds : DeleteSession(s)
    \/ \E r \in Requests : Send(r, ConcurrentMessages)
    \/ \E r \in Requests : EmbedReturn(r)
    \/ \E r \in Requests : StrictReturn(r)
    \/ \E r \in Requests : RelaxedReturn(r)
    \/ \E r \in Requests : LLMReturn(r)

Spec == Init /\ [][Next]_vars

\* Each backend call a sendMessage awaits (the embedding, a vector search,
\* the completion) is eventually back, with a result or a failure; each
\* such step moves the call on, so it changes pc.
LiveSpec ==
    /\ Init /\ [][Next]_vars
    /\ \A r \in Requests :
          /\ WF_pc(EmbedReturn(r)) /\ WF_pc(StrictReturn(r))
          /\ WF_pc(RelaxedReturn(r)) /\ WF_pc(LLMReturn(r))

\* Calls issued one after the other: each is awaited before the next.
InFlight(r) == pc[r] \notin {"idle", "done"}

NextSeq ==
    \/ CreateSession
    \/ \E s \in SessionIds : DeleteSession(s)
    \/ \E r \in Requests : (\A q \in Requests : ~InFlight(q)) /\ Send(r, Messages)
    \/ \E r \in Requests : EmbedReturn(r)
    \/ \E r \in Requests : StrictReturn(r)
    \/ \E r \in Requests : RelaxedReturn(r)
    \/ \E r \in Requests : LLMReturn(r)

SeqSpec == Init /\ [][NextSeq]_vars

\* One call, with any of the messages of ClassifyInputs.
NextOne ==
    \/ CreateSession
    \/ \E s \in SessionIds : DeleteSession(s)
    \/ Send(1, ClassifyInputs)
    \/ EmbedReturn(1)
    \/ StrictReturn(1)
    \/ RelaxedReturn(1)
    \/ LLMReturn(1)

OneCallSpec == Init /\ [][NextOne]_vars

\* The state of IntegratedChatService's sessions and sendMessage calls.
chat == <<sessions, messages, created, vectorService, pc, frame, calls>>

(***************************************************************************)
(* VectorDatabaseService.searchDocuments against the index: the index      *)
(* holds records of type 'document' (storeDocument) and of other types     *)
(* (chat messages), each with its cosine score for the query vector.       *)
(***************************************************************************)
IndexIds == 1..(MaxDocs + 1)

\* Cosine scores of the records, in hundredths.
IndexScores == {0, 12, 30}

NoRecord == [type |-> "none", score |-> 0]

\* What the index may hold under each id.
Indexes ==
    [IndexIds -> [type : {"document", "message"}, score : IndexScores] \cup {NoRecord}]

Stored(index) ==
    {[id |-> i, type |-> index[i].type, score |-> index[i].score] :
        i \in {j \in IndexIds : index[j] # NoRecord}}

\* The arguments of searchDocuments: topK (1 and 2 cut the list short, 8
\* does not) and minScore (0.7 is the default).
TopKValues == {1, 2, 8}
MinScoreValues == {0, 10, 25, 70}

\* index.query({vector, topK, includeMetadata, filter}): the answers the
\* database may give, the topK best records that pass the filter, ranked by
\* descending score (records of equal score in either order).
Query(index, query) ==
    LET passing == {rec \in Stored(index) : rec.type = query.filter}
        n == IF query.topK < Cardinality(passing) THEN query.topK
             ELSE Cardinality(passing)
    IN  {q \in [1..n -> passing] :
            /\ \A i, j \in 1..n : i < j => (q[i] # q[j] /\ q[i].score >= q[j].score)
            /\ \A rec \in passing \ {q[i] : i \in 1..n} :
                  \A i \in 1..n : q[i].score >= rec.score}

\* Lines 127-140: searchDocuments issues the query, for documents only.
SearchDocumentsCall ==
    /\ search.stage = "idle"
    /\ \E index \in Indexes, topK \in TopKValues, minScore \in MinScoreValues :
          search' = [IdleSearch EXCEPT
                        !.stage = "awaitQuery", !.index = index,
                        !.topK = topK, !.minScore = minScore,
                        !.query = [topK |-> topK, filter |-> "document"]]
    /\ UNCHANGED <<chat, chatService, ipc, embedder, vdb, chunker, ingest, startup,
                   store, simple>>

\* Lines 142-147: the query is back (no matches field is an empty list).
QueryReturn ==
    /\ search.stage = "awaitQuery"
    /\ \E matches \in Query(search.index, search.query) :
          search' = [search EXCEPT
                        !.stage = "returned", !.matches = matches,
                        !.results = searchDocuments(matches, search.minScore)]
    /\ UNCHANGED <<chat, chatService, ipc, embedder, vdb, chunker, ingest, startup,
                   store, simple>>

\* Lines 149-152: the query threw; searchDocuments throws an Error.
QueryThrows ==
    /\ search.stage = "awaitQuery"
    /\ \E reason \in {"Request timed out", "Unknown error"} :
          search' = [search EXCEPT
                        !.stage = "failed",
                        !.error = "Failed to search documents: " \o reason]
    /\ UNCHANGED <<chat, chatService, ipc, embedder, vdb, chunker, ingest, startup,
                   store, simple>>

NextSearch ==
    \/ SearchDocumentsCall
    \/ QueryReturn
    \/ QueryThrows

SearchSpec == Init /\ [][NextSearch]_vars

(***************************************************************************)
(* The chat:* handlers of main.js.  Each runs its body in a try and turns  *)
(* what the body throws into a failure result.                             *)
(***************************************************************************)
\* What the try block of a handler ended with: a value it returns as data,
\* or something thrown.
Value(data) == [threw |-> FALSE, data |-> data, isError |-> FALSE, message |-> ""]
Throw(isError, message) ==
    [threw |-> TRUE, data |-> NoData, isError |-> isError, message |-> message]

\* throw new Error('Chat service not available')
ServiceUnavailable == Throw(TRUE, "Chat service not available")

\* Mutant of Handler: no catch, what the body throws leaves the handler.
HandlerNoCatch(channel, body) ==
    IF body.threw
    THEN [channel |-> channel, outcome |-> "thrown", data |-> NoData,
          error |-> body.message]
    ELSE [channel |-> channel, outcome |-> "success", data |-> body.data, error |-> ""]

\* try { ...; return { success: true, data } }
\* catch (error) { return { success: false,
\*     error: error instanceof Error ? error.message : 'Unknown error' } }
Handler(channel, body) ==
    IF body.threw
    THEN [channel |-> channel, outcome |-> "failure", data |-> NoData,
          error |-> IF body.isError THEN body.message ELSE "Unknown error"]
    ELSE [channel |-> channel, outcome |-> "success", data |-> body.data, error |-> ""]

\* The ChatSession object getSession and createSession return.
SessionData(s) == [kind |-> "session", id |-> s, messages |-> messages[s]]

\* Lines 50-62: chat:create-session.
IpcCreateSession ==
    /\ IF chatService
       THEN /\ created < MaxSessions
            /\ created' = created + 1
            /\ sessions' = sessions \cup {created + 1}
            /\ ipc' = [ipc EXCEPT !.last =
                          Handler("chat:create-session",
                                  Value(SessionData(created + 1)))]
       ELSE /\ ipc' = [ipc EXCEPT !.last =
                          Handler("chat:create-session", ServiceUnavailable)]
            /\ UNCHANGED <<sessions, created>>
    /\ UNCHANGED <<messages, vectorService, pc, frame, calls, search, chatService,
                   embedder, vdb, chunker, ingest, startup, store, simple>>

\* Lines 76-88: chat:get-session; the data is undefined for an unknown id.
IpcGetSession(sessionId) ==
    /\ ipc' = [ipc EXCEPT !.last =
                  Handler("chat:get-session",
                          IF ~chatService THEN ServiceUnavailable
                          ELSE IF GetSession(sessionId) = NoSession
                          THEN Value([kind |-> "undefined"])
                          ELSE Value(SessionData(GetSession(sessionId))))]
    /\ UNCHANGED <<chat, search, chatService, embedder, vdb, chunker, ingest,
                   startup, store, simple>>

\* Lines 89-101: chat:delete-session; no data.
IpcDeleteSession(sessionId) ==
    /\ IF chatService
       THEN /\ sessions' = sessions \ {sessionId}
            /\ ipc' = [ipc EXCEPT !.last =
                          Handler("chat:delete-session", Value(NoData))]
       ELSE /\ ipc' = [ipc EXCEPT !.last =
                          Handler("chat:delete-session", ServiceUnavailable)]
            /\ UNCHANGED sessions
    /\ UNCHANGED <<messages, created, vectorService, pc, frame, calls, search,
                   chatService, embedder, vdb, chunker, ingest, startup,
                   store, simple>>

\* Lines 102-114 and getServiceStatus (integratedChatService.ts 467-489):
\* the connection tests answer true or false; getServiceStatus catches.
IpcGetServiceStatus ==
    /\ \E chatbot, vectorDB, embedding \in BOOLEAN :
          ipc' = [ipc EXCEPT !.last =
                     Handler("chat:get-service-status",
                             IF ~chatService
                             THEN Value([kind |-> "status", chatbot |-> FALSE,
                                         vectorDB |-> FALSE, embedding |-> FALSE])
                             ELSE Value([kind |-> "status", chatbot |-> chatbot,
                                         vectorDB |-> vectorService /\ vectorDB,
                                         embedding |-> embedding]))]
    /\ UNCHANGED <<chat, search, chatService, embedder, vdb, chunker, ingest,
                   startup, store, simple>>

SendChannels == {"chat:send-message", "chat:stream-message"}

\* Lines 63-68 and 116-122 with chatService null: the handler throws before
\* any call of sendMessage.
IpcSendUnavailable(channel) ==
    /\ ~chatService
    /\ ipc' = [ipc EXCEPT !.last = Handler(channel, ServiceUnavailable)]
    /\ UNCHANGED <<chat, search, chatService, embedder, vdb, chunker, ingest,
                   startup, store, simple>>

\* Lines 68-69 and 122-123: the sendMessage call r the handler awaited has
\* returned; chat:stream-message passes the content only.
IpcSendReturn(r, channel) ==
    /\ pc[r] = "done"
    /\ ipc.sent[r] = NoResult
    /\ ipc' = [ipc EXCEPT !.sent[r] =
                  Handler(channel,
                          IF channel = "chat:stream-message"
                          THEN Value([kind |-> "content",
                                      content |-> frame[r].response.content])
                          ELSE Value([kind |-> "message",
                                      message |-> frame[r].response]))]
    /\ UNCHANGED <<chat, search, chatService, embedder, vdb, chunker, ingest,
                   startup, store, simple>>

\* main.js 11-35: chatService is null when the key is missing or initialize
\* threw; then the window is created and the handlers are called.
IpcInit ==
    /\ ChatInit
    /\ search = IdleSearch
    /\ chatService \in BOOLEAN
    /\ ipc = NoIpc
    /\ embedder = NewEmbedder
    /\ vdb = VdbWith({})
    /\ chunker = NoChunking
    /\ ingest = NoIngest
    /\ startup = NotConstructed
    /\ store = EmptyStore
    /\ simple = NewSimple

\* The handlers, with one chat:send-message or chat:stream-message call.
NextIpc ==
    \/ IpcCreateSession
    \/ \E s \in SessionIds \cup {NoSession} : IpcGetSession(s)
    \/ \E s \in SessionIds \cup {NoSession} : IpcDeleteSession(s)
    \/ IpcGetServiceStatus
    \/ \E channel \in SendChannels : IpcSendUnavailable(channel)
    \/ chatService /\ Send(1, ConcurrentMessages)
    \/ EmbedReturn(1)
    \/ StrictReturn(1)
    \/ RelaxedReturn(1)
    \/ LLMReturn(1)
    \/ \E channel \in SendChannels : IpcSendReturn(1, channel)

IpcSpec == IpcInit /\ [][NextIpc]_vars

(***************************************************************************)
(* LocalEmbeddingService: the hash-based fallback embedding, and           *)
(* generateEmbedding with its lazy load of the model.                      *)
(***************************************************************************)
\* The characters of code 32 to 95 and of code 97 to 126, in order.
AsciiTo95 == " !\"#$%&'()*+,-./0123456789:;<=>?@ABCDEFGHIJKLMNOPQRSTUVWXYZ[\\]^_"
AsciiFrom97 == "abcdefghijklmnopqrstuvwxyz{|}~"

\* String.prototype.charCodeAt, for one character.
charCodeAt(c) ==
    IF c = "\t" THEN 9 ELSE IF c = "\n" THEN 10
    ELSE IF \E i \in 1..Len(AsciiTo95) : Ch(AsciiTo95, i) = c
    THEN 31 + (CHOOSE i \in 1..Len(AsciiTo95) : Ch(AsciiTo95, i) = c)
    ELSE 96 + (CHOOSE i \in 1..Len(AsciiFrom97) : Ch(AsciiFrom97, i) = c)

\* String.prototype.toLowerCase
RECURSIVE toLowerCase(_)
toLowerCase(s) ==
    IF Len(s) = 0 THEN "" ELSE Lower(Ch(s, 1)) \o toLowerCase(SubSeq(s, 2, Len(s)))

\* s.split(/\s+/), cur being the word read so far.
RECURSIVE SplitWords(_, _)
SplitWords(s, cur) ==
    IF Len(s) = 0 THEN <<cur>>
    ELSE IF IsSpace(Ch(s, 1)) THEN <<cur>> \o SplitWords(TrimLeft(s), "")
    ELSE SplitWords(SubSeq(s, 2, Len(s)), cur \o Ch(s, 1))

\* wordHash = ((wordHash << 5) - wordHash + charCode) & 0xffffffff over the
\* characters of word: 31 * wordHash + charCode modulo 2^32, kept as its
\* upper and lower 16 bits <<hi, lo>>.
RECURSIVE WordHash(_, _)
WordHash(word, h) ==
    IF Len(word) = 0 THEN h
    ELSE LET low  == 31 * h[2] + charCodeAt(Ch(word, 1))
             high == 31 * h[1] + (low \div 65536)
         IN  WordHash(SubSeq(word, 2, Len(word)), <<high % 65536, low % 65536>>)

\* Mutant of AbsMod: wordHash % dimension without Math.abs, negative for a
\* negative wordHash.
AbsModSigned(h, dimension) ==
    LET half == 65536 % dimension
        u == ((h[1] % dimension) * half + (h[2] % dimension)) % dimension
        whole == (half * half) % dimension
    IN  IF h[1] >= 32768 THEN 0 - ((whole + dimension - u) % dimension) ELSE u

\* Math.abs(wordHash) % dimension; wordHash is the signed 32-bit integer
\* with the bits <<hi, lo>>, negative when hi >= 2^15.
AbsMod(h, dimension) ==
    LET half == 65536 % dimension
        u == ((h[1] % dimension) * half + (h[2] % dimension)) % dimension
        whole == (half * half) % dimension
    IN  IF h[1] >= 32768 THEN (whole + dimension - u) % dimension ELSE u

\* An array after writes: a write at an index beyond the end lengthens it.
RECURSIVE ArrayLength(_, _)
ArrayLength(length, writes) ==
    IF Len(writes) = 0 THEN length
    ELSE ArrayLength(IF writes[1].index >= length THEN writes[1].index + 1 ELSE length,
                     Tail(writes))

\* Lines 55-82: the array of `dimension` zeros and the additions made to
\* it, in order: sin(charCode * 0.1) * 0.1 at charCode % dimension for each
\* character, then 0.1 at |wordHash| % dimension for each word; the array
\* is divided by its magnitude when that is not zero.
generateSimpleEmbedding(text, dimension) ==
    LET words == SplitWords(toLowerCase(text), "")
        chars == [i \in 1..Len(text) |->
                     [index |-> charCodeAt(Ch(text, i)) % dimension,
                      add |-> "sin", charCode |-> charCodeAt(Ch(text, i))]]
        hashes == [i \in 1..Len(words) |->
                     [index |-> AbsMod(WordHash(words[i], <<0, 0>>), dimension),
                      add |-> "word", charCode |-> 0]]
        writes == chars \o hashes
    IN  [length |-> ArrayLength(dimension, writes), writes |-> writes,
         normalized |-> Len(writes) > 0]

\* The default of the parameter `dimension`, and the size of the vectors of
\* the model Xenova/all-MiniLM-L6-v2.
FallbackDimension == 384
ModelDimension == 384

\* The texts generateEmbedding is called with; the hash of "voltage?" and of
\* "capacitor" is negative, that of "polygenelubricants" is -2^31.
EmbedTexts ==
    {"test", "pin map", "What is the  maximum voltage?", " Hi", "",
     "polygenelubricants", "Capacitor bank"}

\* generateSimpleEmbedding(text), tabulated over the texts.
SimpleEmbeddings ==
    [t \in EmbedTexts |-> generateSimpleEmbedding(t, FallbackDimension)]

\* Array.from(output.data) of the model, as far as it is known: its length.
ModelEmbedding(text) ==
    [length |-> ModelDimension, writes |-> <<>>, normalized |-> TRUE]

\* Mutant of Recover: no catch, the error leaves generateEmbedding.
Rethrow(call) ==
    [call EXCEPT !.pc = "done", !.status = "threw"]

\* Lines 42-49: the catch of generateEmbedding returns the fallback.
Recover(call) ==
    [call EXCEPT !.pc = "done", !.status = "returned", !.source = "fallback",
                 !.embedding = SimpleEmbeddings[call.text]]

\* Lines 26-31 and 15-18: generateEmbedding(text) up to its first await:
\* initializeModel starts pipeline() when this.model is not set, else the
\* model is called.
GenerateEmbedding(c, text) ==
    /\ embedder.call[c].pc = "idle"
    /\ \A d \in Requests : d < c => embedder.call[d].pc # "idle"
    /\ embedder' =
          IF embedder.model = 0
          THEN [embedder EXCEPT !.loads = @ + 1,
                                !.call[c].pc = "awaitPipeline",
                                !.call[c].text = text]
          ELSE [embedder EXCEPT !.call[c].pc = "awaitModel",
                                !.call[c].text = text]
    /\ UNCHANGED <<chat, search, chatService, ipc, vdb, chunker, ingest, startup,
                   store, simple>>

\* Lines 18-20 and 29-31: pipeline() is back: this.model is assigned the
\* pipeline this call loaded and the model is called; or pipeline() threw.
PipelineReturn(c) ==
    /\ embedder.call[c].pc = "awaitPipeline"
    /\ \/ embedder' = [embedder EXCEPT !.model = c, !.assigned = @ + 1,
                                       !.call[c].pc = "awaitModel"]
       \/ embedder' = [embedder EXCEPT !.call[c] = Recover(@)]
    /\ UNCHANGED <<chat, search, chatService, ipc, vdb, chunker, ingest, startup,
                   store, simple>>

\* Lines 31-41: the model is back with its output, or it threw.
ModelReturn(c) ==
    /\ embedder.call[c].pc = "awaitModel"
    /\ \/ embedder' = [embedder EXCEPT
                          !.call[c].pc = "done",
                          !.call[c].status = "returned",
                          !.call[c].source = "model",
                          !.call[c].embedding = ModelEmbedding(embedder.call[c].text)]
       \/ embedder' = [embedder EXCEPT !.call[c] = Recover(@)]
    /\ UNCHANGED <<chat, search, chatService, ipc, vdb, chunker, ingest, startup,
                   store, simple>>

\* Calls of generateEmbedding on one embedder, awaited or not.
NextEmbed ==
    \/ \E c \in Requests, text \in EmbedTexts : GenerateEmbedding(c, text)
    \/ \E c \in Requests : PipelineReturn(c)
    \/ \E c \in Requests : ModelReturn(c)

EmbedSpec == Init /\ [][NextEmbed]_vars

(***************************************************************************)
(* VectorDatabaseService.initializeIndex and waitForIndexReady.            *)
(***************************************************************************)
\* this.indexName (an argument of the constructor), and the name of another
\* index of the project.
indexName == "chatbot-docs"
IndexNames == {indexName, "another-index"}

\* waitForIndexReady(maxAttempts = 60), setTimeout(resolve, 5000).
DefaultMaxAttempts == 60
PollIntervalMs == 5000

timeoutError == "Index failed to become ready within timeout period"

\* throw new Error(`Failed to initialize vector database: ${error.message}`)
InitializeFailed(call, message) ==
    [call EXCEPT !.pc = "failed",
                 !.error = "Failed to initialize vector database: " \o message]

\* Mutant of indexExists: the listing is ignored.
indexExistsNever(indexes) == FALSE

\* indexList.indexes?.some(index => index.name === this.indexName)
indexExists(indexes) == \E name \in indexes : name = indexName

\* Mutant of AttemptsLeft: the loop runs while i <= maxAttempts.
AttemptsLeftInclusive(i, maxAttempts) == i <= maxAttempts

\* The loop condition of waitForIndexReady: i < maxAttempts.
AttemptsLeft(i, maxAttempts) == i < maxAttempts

\* Line 52: initializeIndex is called (the call before it is over) and
\* awaits listIndexes.
InitializeIndex ==
    /\ vdb.call.pc \in {"idle", "done", "failed"}
    /\ vdb.started < MaxReq
    /\ vdb' = [vdb EXCEPT !.started = @ + 1,
                          !.call = [IdleIndexCall EXCEPT !.pc = "awaitList"]]
    /\ UNCHANGED <<chat, search, chatService, ipc, embedder, chunker, ingest,
                   startup, store, simple>>

\* Lines 52-67: listIndexes is back: with the index in the list the call is
\* over, without it createIndex is issued; or listIndexes threw.
ListReturn ==
    /\ vdb.call.pc = "awaitList"
    /\ \/ IF indexExists(vdb.indexes)
          THEN vdb' = [vdb EXCEPT !.call.pc = "done", !.call.sawExisting = TRUE]
          ELSE vdb' = [vdb EXCEPT !.creates = @ + 1,
                                  !.call.creates = @ + 1,
                                  !.call.pc = "awaitCreate"]
       \/ vdb' = [vdb EXCEPT !.call = InitializeFailed(@, "Request failed")]
    /\ UNCHANGED <<chat, search, chatService, ipc, embedder, chunker, ingest,
                   startup, store, simple>>

\* Lines 57-71 and 83-85: createIndex is back: the index exists now and
\* waitForIndexReady makes its first poll; or createIndex threw.
CreateReturn ==
    /\ vdb.call.pc = "awaitCreate"
    /\ \/ vdb' = [vdb EXCEPT !.indexes = @ \cup {indexName},
                             !.created = @ + 1,
                             !.call.i = 0,
                             !.call.polls = IF AttemptsLeft(0, DefaultMaxAttempts)
                                            THEN @ + 1 ELSE @,
                             !.call.pc = IF AttemptsLeft(0, DefaultMaxAttempts)
                                         THEN "awaitPoll" ELSE "failed",
                             !.call.error = IF AttemptsLeft(0, DefaultMaxAttempts)
                                            THEN ""
                                            ELSE "Failed to initialize vector database: "
                                                    \o timeoutError]
       \/ vdb' = [vdb EXCEPT !.createFailures = @ + 1,
                             !.call = InitializeFailed(@, "Request failed")]
    /\ UNCHANGED <<chat, search, chatService, ipc, embedder, chunker, ingest,
                   startup, store, simple>>

\* Lines 85-94: describeIndexStats is back: with stats the wait and the
\* call are over; when it threw (or gave nothing) the 5-second timer is set.
PollReturn ==
    /\ vdb.call.pc = "awaitPoll"
    /\ \/ vdb' = [vdb EXCEPT !.call.pc = "done"]
       \/ vdb' = [vdb EXCEPT !.call.waits = @ + 1, !.call.pc = "awaitTimer"]
    /\ UNCHANGED <<chat, search, chatService, ipc, embedder, chunker, ingest,
                   startup, store, simple>>

\* Lines 83-96 and 73-76: the timer fired: i++, then the next poll, or the
\* timeout error, which the catch of initializeIndex throws on.
TimerFires ==
    /\ vdb.call.pc = "awaitTimer"
    /\ IF AttemptsLeft(vdb.call.i + 1, DefaultMaxAttempts)
       THEN vdb' = [vdb EXCEPT !.call.i = @ + 1, !.call.polls = @ + 1,
                               !.call.pc = "awaitPoll"]
       ELSE vdb' = [vdb EXCEPT !.call =
                       InitializeFailed([@ EXCEPT !.i = @ + 1], timeoutError)]
    /\ UNCHANGED <<chat, search, chatService, ipc, embedder, chunker, ingest,
                   startup, store, simple>>

\* A Pinecone project that may hold the index already.
IndexInit ==
    /\ ChatInit
    /\ search = IdleSearch
    /\ chatService = TRUE
    /\ ipc = NoIpc
    /\ embedder = NewEmbedder
    /\ \E indexes \in SUBSET IndexNames : vdb = VdbWith(indexes)
    /\ chunker = NoChunking
    /\ ingest = NoIngest
    /\ startup = NotConstructed
    /\ store = EmptyStore
    /\ simple = NewSimple

\* initializeIndex calls made one after the other.
NextIndex ==
    \/ InitializeIndex
    \/ ListReturn
    \/ CreateReturn
    \/ PollReturn
    \/ TimerFires

\* The requests to Pinecone are answered or fail, and timers fire.
IndexSpec ==
    /\ IndexInit /\ [][NextIndex]_vars
    /\ WF_vars(ListReturn) /\ WF_vars(CreateReturn)
    /\ WF_vars(PollReturn) /\ WF_vars(TimerFires)

(***************************************************************************)
(* SimpleDocumentProcessingService.chunkText.                              *)
(***************************************************************************)
\* The positions of s that hold one of the separators, in order.
SeparatorsIn(s, separators) ==
    SelectSeq([i \in 1..Len(s) |-> i], LAMBDA i : Ch(s, i) \in separators)

\* s.split(c) for a one-character separator (any of `separators`).
Split(s, separators) ==
    LET at == SeparatorsIn(s, separators)
        from(k) == IF k = 1 THEN 1 ELSE at[k - 1] + 1
        to(k) == IF k = Len(at) + 1 THEN Len(s) ELSE at[k] - 1
    IN  [k \in 1..(Len(at) + 1) |-> SubSeq(s, from(k), to(k))]

\* s.split(/[...]+/): a run of separators splits once, so that the empty
\* pieces inside a run are not pieces (those at the two ends are).
SplitRuns(s, separators) ==
    LET pieces == Split(s, separators)
        n == Len(pieces)
        kept == SelectSeq([k \in 1..n |-> k],
                          LAMBDA k : k = 1 \/ k = n \/ Len(pieces[k]) > 0)
    IN  [k \in 1..Len(kept) |-> pieces[kept[k]]]

\* Array.prototype.join
RECURSIVE Join(_, _)
Join(words, sep) ==
    IF Len(words) = 0 THEN ""
    ELSE IF Len(words) = 1 THEN words[1]
    ELSE words[1] \o sep \o Join(Tail(words), sep)

\* list.slice(-n): the last n entries, and all of them for n = 0.
SliceLast(list, n) ==
    IF n = 0 THEN list
    ELSE SubSeq(list, IF Len(list) > n THEN Len(list) - n + 1 ELSE 1, Len(list))

maxChunkSize == 1000
overlap == 100

\* text.split(/[.!?\n]+/).filter(s => s.trim().length > 0)
Sentences(text) ==
    SelectSeq(SplitRuns(text, {".", "!", "?", "\n"}), LAMBDA s : Len(Trim(s)) > 0)

\* The chunk pushed for currentChunk.
Chunk(filename, chunkIndex, currentChunk) ==
    [id |-> filename \o "-chunk-" \o ToString(chunkIndex),
     text |-> Trim(currentChunk),
     metadata |-> [filename |-> filename, chunkIndex |-> chunkIndex,
                   totalChunks |-> 0]]

\* Mutant of ChunkingStep: a full chunk is replaced without being pushed.
ChunkingStepNoPush(filename, st, sentence) ==
    LET trimmedSentence == Trim(sentence)
    IN  IF Len(st.currentChunk) + Len(trimmedSentence) + 1 > maxChunkSize
        THEN [st EXCEPT !.currentChunk = trimmedSentence]
        ELSE [st EXCEPT !.currentChunk =
                 @ \o (IF @ # "" THEN ". " ELSE "") \o trimmedSentence]

\* Mutant of ChunkingStep: chunkIndex is not counted up after a push.
ChunkingStepSameIndex(filename, st, sentence) ==
    LET trimmedSentence == Trim(sentence)
        currentChunk == st.currentChunk
    IN  IF Len(currentChunk) + Len(trimmedSentence) + 1 > maxChunkSize
        THEN IF Trim(currentChunk) # ""
             THEN LET words == Split(currentChunk, {" "})
                      overlapWords == SliceLast(words, overlap \div 6)
                  IN  [currentChunk |->
                           Join(overlapWords, " ") \o " " \o trimmedSentence,
                       chunkIndex |-> st.chunkIndex,
                       chunks |-> Append(st.chunks,
                                         Chunk(filename, st.chunkIndex, currentChunk))]
             ELSE [st EXCEPT !.currentChunk = trimmedSentence]
        ELSE [st EXCEPT !.currentChunk =
                 @ \o (IF @ # "" THEN ". " ELSE "") \o trimmedSentence]

\* One turn of the loop over the sentences (lines 116-142), on the locals
\* currentChunk, chunkIndex and chunks.
ChunkingStep(filename, st, sentence) ==
    LET trimmedSentence == Trim(sentence)
        currentChunk == st.currentChunk
    IN  IF Len(currentChunk) + Len(trimmedSentence) + 1 > maxChunkSize
        THEN IF Trim(currentChunk) # ""
             THEN LET words == Split(currentChunk, {" "})
                      overlapWords == SliceLast(words, overlap \div 6)
                  IN  [currentChunk |->
                           Join(overlapWords, " ") \o " " \o trimmedSentence,
                       chunkIndex |-> st.chunkIndex + 1,
                       chunks |-> Append(st.chunks,
                                         Chunk(filename, st.chunkIndex, currentChunk))]
             ELSE [st EXCEPT !.currentChunk = trimmedSentence]
        ELSE [st EXCEPT !.currentChunk =
                 @ \o (IF @ # "" THEN ". " ELSE "") \o trimmedSentence]

\* The loop over sentences[k..].
RECURSIVE Chunking(_, _, _, _)
Chunking(filename, sentences, k, st) ==
    IF k > Len(sentences) THEN st
    ELSE Chunking(filename, sentences, k + 1,
                  ChunkingStep(filename, st, sentences[k]))

\* Mutant of LastChunk: what is left is pushed even when it is empty.
LastChunkAlways(filename, st) ==
    Append(st.chunks, Chunk(filename, st.chunkIndex, st.currentChunk))

\* Lines 144-154: what is left in currentChunk is the last chunk.
LastChunk(filename, st) ==
    IF Trim(st.currentChunk) # ""
    THEN Append(st.chunks, Chunk(filename, st.chunkIndex, st.currentChunk))
    ELSE st.chunks

chunkText(text, filename) ==
    LET st == Chunking(filename, Sentences(text), 1,
                       [currentChunk |-> "", chunkIndex |-> 0, chunks |-> <<>>])
        chunks == LastChunk(filename, st)
    IN  [k \in 1..Len(chunks) |->
            [chunks[k] EXCEPT !.metadata.totalChunks = Len(chunks)]]

\* s repeated n times.
RECURSIVE Rep(_, _)
Rep(s, n) ==
    IF n = 0 THEN ""
    ELSE IF n % 2 = 0 THEN LET half == Rep(s, n \div 2) IN half \o half
    ELSE s \o Rep(s, n - 1)

\* Pieces of text, each a sentence with what ends it: sentences of 15, 399,
\* 949 and 1011 characters, one of 750 characters without a space, white
\* space only, and a sentence that nothing ends.
TextPieces ==
    << "Pin 3 is ground. ",
       Rep("capacitor ", 40) \o "\n\n",
       " " \o Rep("regulator ", 95) \o "?! ",
       Rep("transistor ", 92) \o ".\n",
       Rep("ohm", 250) \o ". ",
       "  \n",
       "The supply is 5 V" >>

MaxPieces == 3

RECURSIVE TextOf(_)
TextOf(pieces) ==
    IF Len(pieces) = 0 THEN "" ELSE TextPieces[Head(pieces)] \o TextOf(Tail(pieces))

\* The texts made of at most MaxPieces pieces.
ChunkTexts ==
    {TextOf(q) : q \in UNION {[1..n -> 1..Len(TextPieces)] : n \in 0..MaxPieces}}

\* chunkText is called with a text.
ChunkInit ==
    /\ ChatInit
    /\ search = IdleSearch
    /\ chatService = TRUE
    /\ ipc = NoIpc
    /\ embedder = NewEmbedder
    /\ vdb = VdbWith({})
    /\ \E text \in ChunkTexts : \E filename \in {"pins.txt", "notes.md"} :
          chunker = [NoChunking EXCEPT !.text = text, !.filename = filename]
    /\ ingest = NoIngest
    /\ startup = NotConstructed
    /\ store = EmptyStore
    /\ simple = NewSimple

\* chunkText returns.
ChunkText ==
    /\ ~chunker.returned
    /\ chunker' = [chunker EXCEPT !.returned = TRUE,
                                  !.chunks = chunkText(chunker.text, chunker.filename)]
    /\ UNCHANGED <<chat, search, chatService, ipc, embedder, vdb, ingest, startup,
                   store, simple>>

NextChunk == ChunkText

ChunkSpec == ChunkInit /\ [][NextChunk]_vars

(***************************************************************************)
(* SimpleDocumentProcessingService.processAllDocuments.                    *)
(***************************************************************************)
\* path.extname: from the last "." on, and "" without one after the start.
extname(file) ==
    LET at == SeparatorsIn(file, {"."})
    IN  IF Len(at) = 0 \/ at[Len(at)] = 1 THEN ""
        ELSE SubSeq(file, at[Len(at)], Len(file))

\* Lines 28-31: the files processAllDocuments goes through.
Supported(files) ==
    SelectSeq(files, LAMBDA f : toLowerCase(extname(f.name)) \in {".pdf", ".txt", ".md"})

\* A text of two sentences of 599 characters: two chunks.
TwoChunkText == Rep("capacitor ", 60) \o ". " \o Rep("regulator ", 60)

\* What a file of the folder can hold; a file that cannot be read makes
\* readFileSync throw.
Unreadable == [readable |-> FALSE, text |-> ""]
Holding(text) == [readable |-> TRUE, text |-> text]
TextFileContents ==
    {Unreadable} \cup
    {Holding(t) : t \in {"", " \n\t ", "Pin 3 is ground. The supply is 5 V",
                         TwoChunkText}}
PdfFileContents ==
    {Unreadable} \cup {Holding(t) : t \in {" \n", "Pin 3 is ground. The supply is 5 V"}}

File(name, content) == [name |-> name, readable |-> content.readable, text |-> content.text]

\* The folders: none, or one with four files.
Folders ==
    {<<File("intro.txt", a), File("photo.png", Holding("")), File("PINS.MD", b),
       File("manual.pdf", c)>> :
        a \in TextFileContents, b \in TextFileContents, c \in PdfFileContents}

\* The catch blocks on the way out of processAllDocuments: each logs and
\* throws the error on (lines 180-183, 75-78 or 101-104, 44-47).
Rethrown(run, logs, message) ==
    [run EXCEPT !.pc = "failed", !.logged = @ \o logs, !.error = message]

FileLog(f) ==
    IF toLowerCase(extname(f.name)) = ".pdf"
    THEN "Error processing PDF file " \o f.name
    ELSE "Error processing text file " \o f.name

\* The file the run is at is over: nothing was found in it (skipped), or
\* all its chunks are stored.
Processed(run, outcome) ==
    [run EXCEPT !.processed =
        Append(@, [name |-> run.supportedFiles[run.file].name, outcome |-> outcome])]

\* Lines 33-41, 85-98 and 54-60: the loop over the supported files from
\* file k on, up to the next await or the end of the run.  RunText is what
\* follows once the text of file k is there (lines 63-72, 89-98).
RECURSIVE RunFrom(_, _)
RunText(run, k, fullText) ==
    LET f == run.supportedFiles[k]
        at == [run EXCEPT !.file = k]
    IN  IF Trim(fullText) = ""
        THEN RunFrom(Processed(at, "no text"), k + 1)
        ELSE LET chunks == chunkText(fullText, f.name)
             IN  IF Len(chunks) = 0
                 THEN RunFrom(Processed(at, "processed"), k + 1)
                 ELSE [at EXCEPT !.chunks = chunks, !.chunk = 1,
                                 !.pc = "generateEmbedding"]

RunFrom(run, k) ==
    IF k > Len(run.supportedFiles)
    THEN [run EXCEPT !.pc = "done", !.file = k, !.chunks = <<>>, !.chunk = 0]
    ELSE LET f == run.supportedFiles[k]
         IN  IF ~f.readable
             THEN Rethrown([run EXCEPT !.file = k], 
                           <<FileLog(f), "Error processing documents">>,
                           "ENOENT: no such file or directory")
             ELSE IF toLowerCase(extname(f.name)) = ".pdf"
             THEN [run EXCEPT !.file = k, !.pc = "pdfParse",
                              !.chunks = <<>>, !.chunk = 0]
             ELSE RunText(run, k, f.text)

\* Lines 19-41: processAllDocuments is called; without the folder it makes
\* it and returns.
ProcessAllDocuments ==
    /\ ingest.pc = "idle"
    /\ ingest' =
          IF ~ingest.exists
          THEN [ingest EXCEPT !.exists = TRUE, !.pc = "done"]
          ELSE RunFrom([ingest EXCEPT !.supportedFiles = Supported(ingest.files)], 1)
    /\ UNCHANGED <<chat, search, chatService, ipc, embedder, vdb, chunker, startup,
                   store, simple>>

\* Lines 60-78: pdfParse is back with the text of the file, or it threw.
ParseReturn ==
    /\ ingest.pc = "pdfParse"
    /\ LET f == ingest.supportedFiles[ingest.file]
       IN  \/ ingest' = RunText(ingest, ingest.file, f.text)
           \/ ingest' = Rethrown(ingest, <<FileLog(f), "Error processing documents">>,
                                 "Invalid PDF structure")
    /\ UNCHANGED <<chat, search, chatService, ipc, embedder, vdb, chunker, startup,
                   store, simple>>

\* Lines 167-169: generateEmbedding is back (it does not throw) and
\* storeDocument is called, which issues the upsert.
EmbeddingReturn ==
    /\ ingest.pc = "generateEmbedding"
    /\ ingest' = [ingest EXCEPT !.pc = "storeDocument", !.upserts = @ + 1]
    /\ UNCHANGED <<chat, search, chatService, ipc, embedder, vdb, chunker, startup,
                   store, simple>>

\* Lines 169-183, 96-104, 33-47: storeDocument is back: the next chunk, the
\* next file or the end of the run; or it threw.
StoreReturn ==
    /\ ingest.pc = "storeDocument"
    /\ LET f == ingest.supportedFiles[ingest.file]
           chunk == ingest.chunks[ingest.chunk]
           stored == [ingest EXCEPT !.stored =
                         Append(@, [id |-> chunk.id, text |-> chunk.text,
                                    filename |-> chunk.metadata.filename,
                                    dimension |-> ModelDimension])]
       IN  \/ ingest' = IF ingest.chunk < Len(ingest.chunks)
                        THEN [stored EXCEPT !.chunk = @ + 1,
                                            !.pc = "generateEmbedding"]
                        ELSE RunFrom(Processed(stored, "processed"), ingest.file + 1)
           \/ ingest' = Rethrown(ingest,
                                 <<"Error processing chunk " \o chunk.id, FileLog(f),
                                   "Error processing documents">>,
                                 "Failed to store document: Request failed")
    /\ UNCHANGED <<chat, search, chatService, ipc, embedder, vdb, chunker, startup,
                   store, simple>>

\* A documents folder, or none.
IngestInit ==
    /\ ChatInit
    /\ search = IdleSearch
    /\ chatService = TRUE
    /\ ipc = NoIpc
    /\ embedder = NewEmbedder
    /\ vdb = VdbWith({})
    /\ chunker = NoChunking
    /\ \/ ingest = NoIngest
       \/ \E files \in Folders : ingest = [NoIngest EXCEPT !.exists = TRUE, !.files = files]
    /\ startup = NotConstructed
    /\ store = EmptyStore
    /\ simple = NewSimple

NextIngest ==
    \/ ProcessAllDocuments
    \/ ParseReturn
    \/ EmbeddingReturn
    \/ StoreReturn

IngestSpec == IngestInit /\ [][NextIngest]_vars

(***************************************************************************)
(* The messages sendMessage hands to the language model.                   *)
(***************************************************************************)
\* Lines 332-334.
listMergeInstruction(message) ==
    IF PatternTests[message].merge
    THEN "If the information appears across multiple places in the provided context, merge and deduplicate items into one clear numbered list in your answer."
    ELSE ""

\* Lines 336-370: the composed instruction; of its fixed requirements only
\* the first line is kept.
systemPrompt(documentContext, message) ==
    "You are a helpful AI assistant built into this application to provide user support.\n\n"
    \o listMergeInstruction(message)
    \o "\n\nAvailable Information:\n" \o documentContext
    \o "\n\nUser Question: " \o message
    \o "\n\nIf this question is about the application and you can answer it using the information provided, give a direct helpful answer."

\* ChatbotService.defaultSystemPrompt
defaultSystemPrompt ==
    "You are a helpful AI assistant. Be concise and friendly in your responses."

\* No systemPrompt in the options: { ...chatOptions, systemPrompt: undefined }.
undefined == [undefined |-> TRUE]

\* ChatbotService.sendMessage, lines 37-59: the messages of the completion
\* request.  The default of the destructuring applies to an undefined
\* systemPrompt.
ChatbotMessages(message, chatHistory, options) ==
    LET recent == SliceLast(chatHistory, 10)
    IN  <<[role |-> "system",
           content |-> IF options.systemPrompt = undefined
                       THEN [text |-> defaultSystemPrompt]
                       ELSE options.systemPrompt]>>
        \o [k \in 1..Len(recent) |->
               [role |-> recent[k].role, content |-> [text |-> recent[k].content]]]
        \o <<[role |-> "user", content |-> [text |-> message]]>>

\* Lines 377-385: the request of the call r that awaits the language model.
LLMRequest(r) ==
    ChatbotMessages(systemPrompt(frame[r].prompt.context, frame[r].prompt.question),
                    frame[r].prompt.chatHistory,
                    [systemPrompt |-> undefined])

(***************************************************************************)
(* The constructor and initialize of IntegratedChatService, and the calls  *)
(* that follow: main.js opens the window once initialize is over.          *)
(***************************************************************************)
\* Mutant of GiveUpVector: the reason is noted, the services are kept.
GiveUpVectorKeeping(reason, next) ==
    /\ startup' = [startup EXCEPT !.reason = reason, !.pc = next]
    /\ UNCHANGED vectorService

\* Lines 91-93 and 98-101: this.vectorService = undefined;
\* this.documentService = undefined; and initialize goes on.
GiveUpVector(reason, next) ==
    /\ startup' = [startup EXCEPT !.reason = reason, !.documentService = FALSE,
                                  !.pc = next]
    /\ vectorService' = FALSE

\* Lines 76-85: the connection test of the language model is back
\* (ChatbotService.testConnection lists the models and returns true, or
\* false when the listing threw); the default model stays as it is.
ChatbotTested ==
    /\ startup.pc = "testChatbot"
    /\ \/ /\ \E models \in ModelLists :
                startup' = [startup EXCEPT
                               !.models = models,
                               !.pc = IF vectorService THEN "initializeIndex"
                                      ELSE "testEmbedding"]
          /\ UNCHANGED <<vectorService, chatService>>
       \/ /\ startup' = [startup EXCEPT !.pc = "failed", !.chatbotConnected = FALSE]
          /\ chatService' = FALSE
          /\ UNCHANGED vectorService
    /\ UNCHANGED <<sessions, messages, created, pc, frame, calls, search, ipc,
                   embedder, vdb, chunker, ingest, store, simple>>

\* Lines 88-102: initializeIndex is back, or it threw.
IndexInitialized ==
    /\ startup.pc = "initializeIndex"
    /\ \/ startup' = [startup EXCEPT !.pc = "testVector"] /\ UNCHANGED vectorService
       \/ GiveUpVector("initializeFailed", "testEmbedding")
    /\ UNCHANGED <<sessions, messages, created, pc, frame, calls, search,
                   chatService, ipc, embedder, vdb, chunker, ingest, store,
                   simple>>

\* Lines 89-96: the connection test of the vector database is back.
VectorTested ==
    /\ startup.pc = "testVector"
    /\ \/ startup' = [startup EXCEPT !.pc = "testEmbedding"] /\ UNCHANGED vectorService
       \/ GiveUpVector("connectionFailed", "testEmbedding")
    /\ UNCHANGED <<sessions, messages, created, pc, frame, calls, search,
                   chatService, ipc, embedder, vdb, chunker, ingest, store,
                   simple>>

\* Lines 107-117: testEmbedding is back; whatever it gave, initialize goes on.
EmbeddingTested ==
    /\ startup.pc = "testEmbedding"
    /\ \E embeddingWorking \in BOOLEAN :
          startup' = [startup EXCEPT
                         !.pc = IF vectorService THEN "getIndexStats" ELSE "done"]
    /\ UNCHANGED <<chat, search, chatService, ipc, embedder, vdb, chunker, ingest,
                   store, simple>>

\* Lines 120-141: getIndexStats is back, with the stats or with null.
StatsReturn ==
    /\ startup.pc = "getIndexStats"
    /\ startup' = [startup EXCEPT !.pc = "done"]
    /\ UNCHANGED <<chat, search, chatService, ipc, embedder, vdb, chunker, ingest,
                   store, simple>>

\* main.js lines 131-133: the window, and with it the first call, comes
\* after initializeChatService; after a failed initialize chatService is null.
Ready == chatService /\ startup.pc = "done"

\* processDocuments (lines 147-152): without a document service it throws,
\* with one it starts a processAllDocuments run.
ProcessDocuments ==
    /\ Ready
    /\ startup.ingestions + startup.refused < MaxReq
    /\ startup' = IF startup.documentService
                  THEN [startup EXCEPT !.ingestions = @ + 1]
                  ELSE [startup EXCEPT !.refused = @ + 1]
    /\ UNCHANGED <<chat, search, chatService, ipc, embedder, vdb, chunker, ingest,
                   store, simple>>

\* main.js lines 14-26: the service is constructed (its vector and document
\* services are set when both the key and the index name are there),
\* assigned to chatService, and initialize is called.
StartupInit ==
    /\ sessions = {}
    /\ messages = [s \in SessionIds |-> <<>>]
    /\ created = 0
    /\ pc = [r \in Requests |-> "idle"]
    /\ frame = [r \in Requests |-> IdleFrame]
    /\ calls = [r \in Requests |-> <<>>]
    /\ search = IdleSearch
    /\ chatService = TRUE
    /\ ipc = NoIpc
    /\ embedder = NewEmbedder
    /\ vdb = VdbWith({})
    /\ chunker = NoChunking
    /\ ingest = NoIngest
    /\ store = EmptyStore
    /\ simple = NewSimple
    /\ \E key \in BOOLEAN, name \in BOOLEAN :
          /\ vectorService = (key /\ name)
          /\ startup = [NotConstructed EXCEPT
                           !.pineconeApiKey = key, !.pineconeIndexName = name,
                           !.documentService = (key /\ name),
                           !.pc = "testChatbot",
                           !.reason = IF key /\ name THEN "none" ELSE "notConfigured"]

\* initialize, and then the calls of one client.
NextStartup ==
    \/ ChatbotTested
    \/ IndexInitialized
    \/ VectorTested
    \/ EmbeddingTested
    \/ StatsReturn
    \/ ProcessDocuments
    \/ Ready /\ CreateSession
    \/ Ready /\ Send(1, Messages)
    \/ EmbedReturn(1)
    \/ StrictReturn(1)
    \/ RelaxedReturn(1)
    \/ LLMReturn(1)

StartupSpec == StartupInit /\ [][NextStartup]_vars

(***************************************************************************)
(* VectorDatabaseService on its one index: what storeDocument and          *)
(* storeMessage write, what searchDocuments, searchSimilarMessages and     *)
(* getChatContext read, and what deleteSession removes.  A vector is       *)
(* modelled by its length, a record by its metadata and its cosine score   *)
(* (in hundredths) for the query vector.                                   *)
(***************************************************************************)
\* new Array(1536).fill(0), the query vector of deleteSession.
DummyVectorLength == 1536

\* The topK deleteSession asks for, and the default maxContextLength.
DeleteTopK == 10000
DefaultMaxContextLength == 3

\* userId and sessionId of a message ("" is undefined), and the scores on
\* each side of the 0.7 of getChatContext.
StoreUserIds == {"", "u1"}
StoreSessionIds == {"", "s1"}
StoreScores == {60, 80}

\* storeDocument: the upserted record; metadata is the document's metadata
\* (filename, chunkIndex, totalChunks, timestamp), content and type.
storeDocument(document) ==
    [type |-> "document", userId |-> "", sessionId |-> "",
     score |-> document.score, dimension |-> document.embedding]

\* storeMessage: the upserted record; metadata is messageId, userId,
\* sessionId, timestamp and content, and no type.
storeMessage(embedding, score, userId, sessionId) ==
    [type |-> "", userId |-> userId, sessionId |-> sessionId,
     score |-> score, dimension |-> embedding]

\* A metadata filter passes the records that have every field it sets.
Passes(rec, filter) ==
    /\ filter.type = "" \/ rec.type = filter.type
    /\ filter.userId = "" \/ rec.userId = filter.userId
    /\ filter.sessionId = "" \/ rec.sessionId = filter.sessionId

\* index.query({vector, topK, includeMetadata, filter}): the answers the
\* database may give, the topK best records that pass the filter, ranked by
\* descending score (records of equal score in either order).
StoreQuery(index, topK, filter) ==
    LET passing == {id \in DOMAIN index :
                        index[id] # Absent /\ Passes(index[id], filter)}
        n == IF topK < Cardinality(passing) THEN topK ELSE Cardinality(passing)
        ranked == {q \in [1..n -> passing] :
                      /\ \A i, j \in 1..n :
                            i < j => /\ q[i] # q[j]
                                     /\ index[q[i]].score >= index[q[j]].score
                      /\ \A id \in passing \ {q[i] : i \in 1..n} :
                            \A i \in 1..n : index[q[i]].score >= index[id].score}
    IN  {[i \in 1..n |->
            [id |-> q[i], score |-> index[q[i]].score,
             metadata |-> [type |-> index[q[i]].type,
                           userId |-> index[q[i]].userId,
                           sessionId |-> index[q[i]].sessionId]]] : q \in ranked}

\* searchSimilarMessages: the filter holds userId and sessionId when they
\* are given and is undefined otherwise; what it returns or throws.
searchSimilarMessages(index, queryEmbedding, topK, userId, sessionId) ==
    LET filter == [type |-> "", userId |-> userId, sessionId |-> sessionId]
        called == [NoCall EXCEPT !.vector = queryEmbedding, !.filter = filter]
    IN  {[called EXCEPT !.outcome = "ok", !.results = matches] :
            matches \in StoreQuery(index, topK, filter)}
        \cup {[called EXCEPT !.outcome = "error"]}

\* Lines 102-122: storeDocument upserts the chunk, or throws.
StoreDocument ==
    /\ \E id \in DocumentIds, score \in StoreScores, ok \in BOOLEAN :
          LET document == [id |-> id, embedding |-> ModelDimension, score |-> score]
              called == [NoCall EXCEPT !.op = "storeDocument",
                                       !.vector = document.embedding]
          IN  store' = IF ok
                       THEN [index |-> [store.index EXCEPT
                                           ![id] = storeDocument(document)],
                             last |-> [called EXCEPT !.outcome = "ok"]]
                       ELSE [store EXCEPT !.last = [called EXCEPT !.outcome = "error"]]
    /\ UNCHANGED <<chat, search, chatService, ipc, embedder, vdb, chunker, ingest,
                   startup, simple>>

\* Lines 158-186: storeMessage upserts the message, or throws.
StoreMessage ==
    /\ \E id \in MessageIds, score \in StoreScores, userId \in StoreUserIds,
          sessionId \in StoreSessionIds, ok \in BOOLEAN :
          LET called == [NoCall EXCEPT !.op = "storeMessage",
                                       !.vector = ModelDimension]
          IN  store' = IF ok
                       THEN [index |-> [store.index EXCEPT
                                           ![id] = storeMessage(ModelDimension, score,
                                                                userId, sessionId)],
                             last |-> [called EXCEPT !.outcome = "ok"]]
                       ELSE [store EXCEPT !.last = [called EXCEPT !.outcome = "error"]]
    /\ UNCHANGED <<chat, search, chatService, ipc, embedder, vdb, chunker, ingest,
                   startup, simple>>

\* Lines 127-153: searchDocuments queries for documents only and keeps the
\* matches of at least minScore, or throws.
DocumentSearch ==
    /\ \E topK \in {1, 5}, minScore \in {10, 70}, ok \in BOOLEAN :
          LET filter == [NoFilter EXCEPT !.type = "document"]
              called == [NoCall EXCEPT !.op = "searchDocuments",
                                       !.vector = ModelDimension, !.filter = filter]
          IN  IF ok
              THEN \E matches \in StoreQuery(store.index, topK, filter) :
                      store' = [store EXCEPT !.last =
                                   [called EXCEPT
                                       !.outcome = "ok",
                                       !.results = SelectSeq(matches,
                                           LAMBDA m : m.score >= minScore)]]
              ELSE store' = [store EXCEPT !.last = [called EXCEPT !.outcome = "error"]]
    /\ UNCHANGED <<chat, search, chatService, ipc, embedder, vdb, chunker, ingest,
                   startup, simple>>

\* Lines 191-221: searchSimilarMessages returns the matches, or throws.
SearchSimilarMessages ==
    /\ \E topK \in {1, 5}, userId \in StoreUserIds, sessionId \in StoreSessionIds :
          \E returned \in searchSimilarMessages(store.index, ModelDimension, topK,
                                                userId, sessionId) :
             store' = [store EXCEPT !.last =
                          [returned EXCEPT !.op = "searchSimilarMessages"]]
    /\ UNCHANGED <<chat, search, chatService, ipc, embedder, vdb, chunker, ingest,
                   startup, simple>>

\* Lines 226-253: getChatContext keeps the results of a score above 0.7;
\* when the search threw it returns an empty list.
GetChatContext ==
    /\ \E maxContextLength \in {1, DefaultMaxContextLength},
          userId \in StoreUserIds, sessionId \in StoreSessionIds :
          \E returned \in searchSimilarMessages(store.index, ModelDimension,
                                                maxContextLength, userId, sessionId) :
             store' = [store EXCEPT !.last =
                          [returned EXCEPT
                              !.op = "getChatContext",
                              !.outcome = "ok",
                              !.results = SelectSeq(returned.results,
                                              LAMBDA result : result.score > 70)]]
    /\ UNCHANGED <<chat, search, chatService, ipc, embedder, vdb, chunker, ingest,
                   startup, simple>>

\* Lines 258-281: deleteSession searches the messages of the session with
\* a dummy vector and deletes what the search returned; it throws when the
\* search or the deletion does.
DeleteSessionVectors ==
    /\ \E sessionId \in StoreSessionIds \ {""}, deleted \in BOOLEAN :
          \E returned \in searchSimilarMessages(store.index, DummyVectorLength,
                                                DeleteTopK, "", sessionId) :
             LET called == [returned EXCEPT !.op = "deleteSession"]
                 idsToDelete == {returned.results[i].id :
                                    i \in 1..Len(returned.results)}
             IN  store' =
                    IF returned.outcome = "ok" /\ (deleted \/ idsToDelete = {})
                    THEN [index |-> [id \in DOMAIN store.index |->
                                        IF id \in idsToDelete THEN Absent
                                        ELSE store.index[id]],
                          last |-> [called EXCEPT !.deleted = idsToDelete]]
                    ELSE [store EXCEPT !.last = [called EXCEPT !.outcome = "error"]]
    /\ UNCHANGED <<chat, search, chatService, ipc, embedder, vdb, chunker, ingest,
                   startup, simple>>

NextStore ==
    \/ StoreDocument
    \/ StoreMessage
    \/ DocumentSearch
    \/ SearchSimilarMessages
    \/ GetChatContext
    \/ DeleteSessionVectors

StoreSpec == Init /\ [][NextStore]_vars


(***************************************************************************)
(* SimpleChatService: initialize, the sessions and sendMessage.  Each      *)
(* action is the code from one await to the next.                          *)
(***************************************************************************)
\* defaultSystemPrompt of SimpleChatService.
simpleSystemPrompt ==
    "You are a helpful AI assistant. Be concise and friendly in your responses."

\* The message sendMessage is called with.
SimpleQuestion == "What is the maximum voltage?"

\* Lines 74-84: the system prompt and the last ten messages of the session,
\* each with its role and content.
SimpleRequest(prompt, sessionMessages) ==
    LET recent == SliceLast(sessionMessages, 10)
    IN  <<[role |-> "system", content |-> prompt]>>
        \o [i \in 1..Len(recent) |->
               [role |-> recent[i].role, content |-> recent[i].content]]

\* Lines 14-17: initialize asks for the list of models.
SimpleInitialize ==
    /\ simple.init = "new"
    /\ simple' = [simple EXCEPT !.init = "awaitModels"]
    /\ UNCHANGED <<chat, search, chatService, ipc, embedder, vdb, chunker, ingest,
                   startup, store>>

\* Lines 18-42: the list is back and the model is selected, or the listing
\* threw and initialize throws the error on.
SimpleModelsReturn ==
    /\ simple.init = "awaitModels"
    /\ \/ \E availableModels \in ModelLists :
             simple' = [simple EXCEPT
                           !.defaultModel = SelectModel(@, availableModels),
                           !.init = "done"]
       \/ simple' = [simple EXCEPT !.init = "failed"]
    /\ UNCHANGED <<chat, search, chatService, ipc, embedder, vdb, chunker, ingest,
                   startup, store>>

\* Lines 44-54: createSession.
SimpleCreateSession ==
    /\ simple.created < MaxSessions
    /\ simple' = [simple EXCEPT !.created = @ + 1,
                                !.sessions = @ \cup {simple.created + 1}]
    /\ UNCHANGED <<chat, search, chatService, ipc, embedder, vdb, chunker, ingest,
                   startup, store>>

\* Lines 111-113: deleteSession.
SimpleDeleteSession(sessionId) ==
    /\ sessionId \in simple.sessions
    /\ simple' = [simple EXCEPT !.sessions = @ \ {sessionId}]
    /\ UNCHANGED <<chat, search, chatService, ipc, embedder, vdb, chunker, ingest,
                   startup, store>>

\* Lines 58-93: sendMessage throws when the session is not in the Map;
\* otherwise it pushes the user message and asks for the completion.
SimpleSend(r, sessionId) ==
    /\ simple.call[r].pc = "idle"
    /\ \A q \in Requests : q < r => simple.call[q].pc # "idle"
    /\ IF sessionId \notin simple.sessions
       THEN simple' = [simple EXCEPT
                          !.call[r] = [IdleSimpleCall EXCEPT
                                          !.pc = "thrown",
                                          !.error = "Session not found"]]
       ELSE LET pushed == Push(simple.messages[sessionId],
                               createUserMessage(r, SimpleQuestion))
            IN  simple' = [simple EXCEPT
                              !.messages[sessionId] = pushed,
                              !.call[r] = [IdleSimpleCall EXCEPT
                                  !.pc = "awaitCompletion",
                                  !.session = sessionId,
                                  !.model = simple.defaultModel,
                                  !.messages = SimpleRequest(simpleSystemPrompt,
                                                             pushed)]]
    /\ UNCHANGED <<chat, search, chatService, ipc, embedder, vdb, chunker, ingest,
                   startup, store>>

\* Lines 94-109: the completion is back and the response is pushed and
\* returned, or the call threw and sendMessage throws an Error.
SimpleCompletionReturn(r) ==
    /\ simple.call[r].pc = "awaitCompletion"
    /\ \/ \E completion \in LLMCompletions :
             LET responseMessage ==
                     createAssistantMessage(r, responseContent(completion))
             IN  simple' = [simple EXCEPT
                               !.messages[simple.call[r].session] =
                                   Push(@, responseMessage),
                               !.call[r].pc = "returned",
                               !.call[r].returned = responseMessage]
       \/ simple' = [simple EXCEPT
                        !.call[r].pc = "thrown",
                        !.call[r].error =
                            "Failed to get response from chatbot: Connection error."]
    /\ UNCHANGED <<chat, search, chatService, ipc, embedder, vdb, chunker, ingest,
                   startup, store>>

NextSimple ==
    \/ SimpleInitialize
    \/ SimpleModelsReturn
    \/ SimpleCreateSession
    \/ \E s \in SessionIds : SimpleDeleteSession(s)
    \/ \E r \in Requests, s \in SessionIds : SimpleSend(r, s)
    \/ \E r \in Requests : SimpleCompletionReturn(r)

SimpleSpec == Init /\ [][NextSimple]_vars


(***************************************************************************)
(* Properties.                                                             *)
(***************************************************************************)
Done(r) == pc[r] = "done"

\* The positions of the messages of call r in the list of session s.
PositionsOf(r, s) == {i \in 1..Len(messages[s]) : messages[s][i].req = r}

\* The replies (assistant messages) of call r in the list of session s.
RepliesOf(r, s) ==
    {i \in PositionsOf(r, s) : messages[s][i].role = "assistant"}

\* The calls that found session s and have returned.
SentTo(s) == {r \in Requests : Done(r) /\ frame[r].session = s}

\* The searches in the log of call r, in order.
Searches(r) == SelectSeq(calls[r], LAMBDA c : c.op = "search")

CalledLLM(r) == \E i \in 1..Len(calls[r]) : calls[r][i].op = "llm"

\* C1: with calls issued one after the other, whenever no call is running
\* a session of the Map holds exactly two messages per call sent to it, the
\* i-th call's user message at 2i-1 and the reply it returned, an assistant
\* message, at 2i, whichever return the call took.
C1_SequentialOrder ==
    (\A q \in Requests : ~InFlight(q)) =>
        \A s \in sessions :
            /\ Len(messages[s]) = 2 * Cardinality(SentTo(s))
            /\ \A r \in SentTo(s) :
                 LET i == Cardinality({q \in SentTo(s) : q <= r})
                 IN  /\ messages[s][2 * i - 1] = createUserMessage(r, frame[r].message)
                     /\ messages[s][2 * i] = frame[r].response
                     /\ frame[r].response.role = "assistant"

\* Two calls sent to one session that took different returns, one of them
\* after the language model failed.
C1_Witness ==
    /\ \A q \in Requests : ~InFlight(q)
    /\ \E s \in sessions : \E a, b \in SentTo(s) :
          /\ a < b
          /\ frame[a].site = "catch"
          /\ frame[b].site = "greeting"
          /\ Len(messages[s]) = 4

C3_NeverInterleaved ==
    \A s \in SessionIds : \A i \in 1..(Len(messages[s]) - 1) :
        messages[s][i].role = "user" => messages[s][i + 1].req = messages[s][i].req

\* C4 as stated: once call a has returned, every message of a precedes
\* every message of a call b that is still running.
C4_OrderedByCompletion ==
    \A a, b \in Requests :
        (Done(a) /\ InFlight(b)) =>
            \A s \in SessionIds :
                \A i \in PositionsOf(a, s), j \in PositionsOf(b, s) : i < j

\* C5 as stated: while a call is running, no list holds a message of it.
C5_NoMutationBeforeReply ==
    \A r \in Requests : InFlight(r) => \A s \in SessionIds : PositionsOf(r, s) = {}

\* C6: a step of a sendMessage call changes the list of no session other
\* than the one it was called for, and changes the keys of the Map not at all.
C6_OtherSessionsUntouched ==
    [][\A r \in Requests :
          pc'[r] # pc[r] =>
              /\ sessions' = sessions
              /\ \A s \in SessionIds \ {frame'[r].sessionId} :
                    messages'[s] = messages[s]]_vars

\* A call has returned for one session while another call runs for another
\* session, and each list holds the messages of its own call only.
C6_Witness ==
    \E a, b \in Requests :
        /\ Done(a) /\ InFlight(b)
        /\ frame[a].session # NoSession /\ frame[b].session # NoSession
        /\ frame[a].session # frame[b].session
        /\ PositionsOf(a, frame[a].session) = {1, 2}
        /\ PositionsOf(b, frame[b].session) = {1}
        /\ b < a

\* C7: a call whose retrieval ended with no passage (its last search came
\* back with zero results) returns, and leaves as its reply in the session,
\* an assistant message that is exactly the refusal sentence; it did not
\* return from the catch and never called the language model.  A call that
\* did call the language model had a last search with a result.
C7_EmptyRetrievalRefused ==
    \A r \in Requests :
        LET se == Searches(r)
            s  == frame[r].session
        IN  /\ (Done(r) /\ Len(se) >= 1 /\ se[Len(se)].status = "ok"
                        /\ se[Len(se)].found = 0) =>
                  /\ frame[r].response =
                        [role |-> "assistant", req |-> r,
                         content |-> "Sorry, I can only help you with this application. Please ask any queries related to the application."]
                  /\ frame[r].site # "catch"
                  /\ frame[r].response.content # apologyResponse
                  /\ ~CalledLLM(r)
                  /\ \E i \in RepliesOf(r, s) : messages[s][i] = frame[r].response
            /\ CalledLLM(r) =>
                  /\ Len(se) >= 1
                  /\ se[Len(se)].status = "ok"
                  /\ se[Len(se)].found >= 1

\* A call has returned after a strict and a relaxed search that both came
\* back empty.
C7_Witness ==
    \E r \in Requests :
        /\ Done(r)
        /\ Len(Searches(r)) = 2
        /\ \A i \in 1..2 : Searches(r)[i].status = "ok" /\ Searches(r)[i].found = 0
        /\ frame[r].response.content = irrelevantQueryResponse

\* C8: a call makes at most two searches; the first has minScore 0.15 or
\* 0.25; when it came back empty the second, with topK 15 and minScore 0.1,
\* is the next call made, and there is a second search only then; and the
\* documents the language model is called with are those of the last search.
C8_TwoPhaseRetrieval ==
    \A r \in Requests :
        LET se == Searches(r)
        IN  /\ Len(se) <= 2
            /\ Len(se) >= 1 =>
                  /\ se[1].minScore \in {15, 25}
                  /\ se[1].minScore > 10
                  /\ calls[r][2] = se[1]
            /\ (Len(se) >= 1 /\ se[1].status = "ok" /\ se[1].found = 0) =>
                  /\ Len(se) = 2
                  /\ se[2].topK = 15 /\ se[2].minScore = 10
                  /\ calls[r][3] = se[2]
            /\ Len(se) = 2 => se[1].status = "ok" /\ se[1].found = 0
            /\ pc[r] = "awaitLLM" =>
                  /\ se[Len(se)].status = "ok"
                  /\ Len(frame[r].finalDocs) = se[Len(se)].found
                  /\ \A i \in 1..Len(frame[r].finalDocs) :
                        frame[r].finalDocs[i].score >= se[Len(se)].minScore
                  /\ frame[r].prompt.context = JoinContents(frame[r].finalDocs)

\* The strict search came back empty and the language model is called with
\* what the relaxed search found, a document below the strict threshold.
C8_Witness ==
    \E r \in Requests :
        /\ pc[r] = "awaitLLM"
        /\ Len(Searches(r)) = 2
        /\ Searches(r)[1].found = 0
        /\ Searches(r)[2].found = Len(frame[r].finalDocs)
        /\ frame[r].finalDocs[1].score < Searches(r)[1].minScore

\* C9: the first search of a call has topK 15 and minScore 0.15 when the
\* message matches the list cues or the question cues, and topK 8 and
\* minScore 0.25 when it matches neither.
C9_PlanningRule ==
    \A r \in Requests :
        Len(Searches(r)) >= 1 =>
            LET strict == Searches(r)[1]
                m == frame[r].message
            IN  <<strict.topK, strict.minScore>> =
                   IF isListQuery(m) \/ hasQuestionWords(m)
                   THEN <<15, 15>> ELSE <<8, 25>>

\* One call searched for a message with a question cue only and another
\* for a message with no cue.
C9_Witness ==
    \E a, b \in Requests :
        /\ Len(Searches(a)) >= 1 /\ Len(Searches(b)) >= 1
        /\ hasQuestionWords(frame[a].message) /\ ~isListQuery(frame[a].message)
        /\ ~hasQuestionWords(frame[b].message) /\ ~isListQuery(frame[b].message)
        /\ Searches(a)[1].topK = 15 /\ Searches(b)[1].topK = 8

\* C10: a call with a greeting or a thank-you message has returned without
\* any embedding, search or language-model call; a call that made any call
\* has a message that is neither, and the embedding is its first call and
\* is made once.
C10_ClassifiedBeforeRetrieval ==
    \A r \in Requests :
        pc[r] # "idle" =>
            LET m == frame[r].message
            IN  /\ (isGreeting(m) \/ isThankYou(m)) => (calls[r] = <<>> /\ Done(r))
                /\ calls[r] # <<>> =>
                      /\ ~isGreeting(m) /\ ~isThankYou(m)
                      /\ calls[r][1].op = "embed"
                      /\ \A i \in 2..Len(calls[r]) : calls[r][i].op # "embed"

\* A thank-you message was answered in its session with no call made, and
\* a later message that is neither greeting nor thanks is being embedded.
C10_Witness ==
    \E a, b \in Requests :
        /\ Done(a) /\ frame[a].site = "thanks" /\ calls[a] = <<>>
        /\ isThankYou(frame[a].message) /\ ~isGreeting(frame[a].message)
        /\ pc[b] = "awaitEmbed" /\ calls[b] = <<[op |-> "embed"]>>

(***************************************************************************)
(* The vocabularies of section 4.5 of the specification, read off as plain *)
(* string tests (no regular expression), tabulated over the messages.      *)
(***************************************************************************)
RECURSIVE LowerStr(_)
LowerStr(s) == IF Len(s) = 0 THEN "" ELSE Lower(Ch(s, 1)) \o LowerStr(SubSeq(s, 2, Len(s)))

\* s holds w at position i.
HasAt(s, w, i) == i >= 1 /\ i + Len(w) - 1 <= Len(s) /\ SubSeq(s, i, i + Len(w) - 1) = w

Contains(s, w) == \E i \in 1..Len(s) : HasAt(s, w, i)

\* s holds a, then white space only (at least `least` of it), then b.
ContainsSpaced(s, a, b, least) ==
    \E i \in 1..Len(s) : \E j \in (i + Len(a) + least)..Len(s) :
        /\ HasAt(s, a, i) /\ HasAt(s, b, j)
        /\ \A t \in (i + Len(a))..(j - 1) : Ch(s, t) = " "

GreetingVocabulary(m) ==
    LET t == LowerStr(Trim(m))
    IN  \/ \E w \in {"hi", "hai", "hello", "hey"} : HasAt(t, w, 1)
        \/ \E w \in {"morning", "afternoon", "evening"} :
              /\ HasAt(t, "good", 1)
              /\ \E j \in 6..Len(t) :
                    HasAt(t, w, j) /\ \A k \in 5..(j - 1) : Ch(t, k) = " "

ThanksVocabulary(m) ==
    LET t == LowerStr(Trim(m))
    IN  \/ ContainsSpaced(t, "thank", "you", 0)
        \/ \E w \in {"thanks", "good job", "well done", "great", "appreciate", "super"} :
              Contains(t, w)

\* classify(message) of the specification: Greeting before Thanks.
Classified ==
    [m \in Messages \cup ClassifyInputs |->
        IF GreetingVocabulary(m) THEN "Greeting"
        ELSE IF ThanksVocabulary(m) THEN "Thanks"
        ELSE "Substantive"]

BothVocabularies ==
    {m \in Messages \cup ClassifyInputs : GreetingVocabulary(m) /\ ThanksVocabulary(m)}

GreetingReplies == {greetingResponses[i] : i \in 1..Len(greetingResponses)}

\* C11: a call whose message is in both the greeting and the thanks
\* vocabulary has returned, with no collaborator call, one of the four
\* greeting responses, which is also the reply left in its session, and
\* never "You're welcome!".
C11_GreetingPrecedence ==
    \A r \in Requests :
        (pc[r] # "idle" /\ frame[r].session # NoSession
                        /\ frame[r].message \in BothVocabularies) =>
            /\ Done(r) /\ frame[r].site = "greeting" /\ calls[r] = <<>>
            /\ frame[r].response.role = "assistant"
            /\ frame[r].response.content \in GreetingReplies
            /\ frame[r].response.content # "You're welcome!"
            /\ messages[frame[r].session][2] = frame[r].response

\* "hi, thanks" was answered with the third greeting response.
C11_Witness ==
    \E r \in Requests :
        /\ Done(r) /\ frame[r].session # NoSession
        /\ frame[r].message = "hi, thanks"
        /\ frame[r].message \in BothVocabularies
        /\ isGreeting(frame[r].message) /\ isThankYou(frame[r].message)
        /\ frame[r].response.content = "Hi there! What can I help you with?"

C13_SearchFiltered ==
    (search.stage \in {"awaitQuery", "returned", "failed"} =>
        search.query = [topK |-> search.topK, filter |-> "document"])
    /\ (search.stage = "returned" =>
        LET res == search.results
            m == search.matches
            kept == {i \in 1..Len(m) : m[i].score >= search.minScore}
        IN  /\ \A i \in 1..Len(res) : res[i].score >= search.minScore
            /\ \A i \in 1..Len(res) :
                  search.index[res[i].id] =
                      [type |-> "document", score |-> res[i].score]
            /\ Len(res) <= search.topK
            /\ \A i, j \in 1..Len(res) : i < j => res[i].score >= res[j].score
            /\ Len(res) = Cardinality(kept)
            /\ \A i \in 1..Len(res) :
                  LET k == CHOOSE k \in kept :
                              Cardinality({t \in kept : t < k}) = i - 1
                  IN  res[i].id = m[k].id /\ res[i].score = m[k].score)

\* A search returned a document while the index also holds a chat message
\* with a higher score and a document below minScore.
C13_Witness ==
    /\ search.stage = "returned"
    /\ Len(search.results) = 1
    /\ Len(search.matches) = 2
    /\ search.matches[2].score < search.minScore
    /\ \E i \in IndexIds :
          /\ search.index[i].type = "message"
          /\ search.index[i].score > search.results[1].score

\* The call ended on a failure of a collaborator: a search that threw, or
\* the catch of sendMessage (the language model threw).
Failed(r) == Done(r) /\ frame[r].site \in {"searchError", "catch"}

\* In the list of session s, the user message of call r is followed at once
\* by the assistant message r returned.
Replied(r, s) ==
    \E i \in 1..(Len(messages[s]) - 1) :
        /\ messages[s][i] = createUserMessage(r, frame[r].message)
        /\ messages[s][i + 1] = frame[r].response
        /\ messages[s][i + 1].role = "assistant"

IpcResults == ({ipc.last} \cup {ipc.sent[r] : r \in Requests}) \ {NoResult}

\* C15 as stated: the handler of a chat:send-message or chat:stream-message
\* call for a session id that is not in the Map returns a failure.
C15_MissingSessionFails ==
    \A r \in Requests :
        (ipc.sent[r] # NoResult /\ frame[r].session = NoSession) =>
            ipc.sent[r].outcome = "failure"

\* C16: every result a handler has returned is a success with its data or
\* a failure with a non-empty reason and no data, never something thrown;
\* with chatService null every handler returns the failure 'Chat service
\* not available', except chat:get-service-status, which returns a success
\* with every status false.
C16_NeverThrows ==
    \A res \in IpcResults :
        /\ res.outcome \in {"success", "failure"}
        /\ res.outcome = "failure" => (res.error # "" /\ res.data = NoData)
        /\ res.outcome = "success" => res.error = ""
        /\ ~chatService =>
              IF res.channel = "chat:get-service-status"
              THEN /\ res.outcome = "success"
                   /\ res.data = [kind |-> "status", chatbot |-> FALSE,
                                  vectorDB |-> FALSE, embedding |-> FALSE]
              ELSE res.outcome = "failure" /\ res.error = "Chat service not available"

\* With chatService null, chat:stream-message returned the failure.
C16_Witness ==
    /\ ~chatService
    /\ ipc.last = [channel |-> "chat:stream-message", outcome |-> "failure",
                   data |-> NoData, error |-> "Chat service not available"]

\* C17: a generateEmbedding call that is over has returned, not thrown, a
\* vector of exactly 384 entries, whether pipeline() or the model threw or
\* not; the fallback vector has its additions at indices 0 to 383 only and
\* is the same for the same text in every call.
C17_EmbeddingNeverThrows ==
    /\ \A c \in Requests :
          LET call == embedder.call[c]
          IN  call.pc = "done" =>
                 /\ call.status = "returned"
                 /\ call.source \in {"model", "fallback"}
                 /\ call.embedding.length = 384
                 /\ \A i \in 1..Len(call.embedding.writes) :
                       call.embedding.writes[i].index \in 0..383
                 /\ call.source = "fallback" =>
                       /\ call.embedding = generateSimpleEmbedding(call.text, 384)
                       /\ call.embedding.normalized
    /\ \A c, d \in Requests :
          (/\ embedder.call[c].pc = "done" /\ embedder.call[d].pc = "done"
           /\ embedder.call[c].source = "fallback"
           /\ embedder.call[d].source = "fallback"
           /\ embedder.call[c].text = embedder.call[d].text)
             => embedder.call[c].embedding = embedder.call[d].embedding

\* pipeline() threw for one call and the model threw for another call with
\* the same text: both returned the same fallback vector.
C17_Witness ==
    \E c, d \in Requests :
        /\ c # d
        /\ embedder.call[c].pc = "done" /\ embedder.call[d].pc = "done"
        /\ embedder.call[c].source = "fallback"
        /\ embedder.call[d].source = "fallback"
        /\ embedder.call[c].text = "pin map" /\ embedder.call[d].text = "pin map"
        /\ embedder.model # 0 /\ embedder.loads = 2 /\ embedder.assigned = 1
        /\ embedder.call[c].embedding.length = 384

\* C18 as stated: pipeline() is started at most once on an embedder, and
\* this.model is assigned at most once.
C18_LoadedOnce == embedder.loads <= 1 /\ embedder.assigned <= 1

IndexCallRunning == vdb.call.pc \in {"awaitList", "awaitCreate", "awaitPoll", "awaitTimer"}

\* What holds of the wait of an initializeIndex call at any time.
WaitBounded ==
    LET call == vdb.call
    IN  /\ call.polls <= 60 /\ call.waits <= 60
        /\ call.waits * 5000 <= 300000
        /\ call.pc = "awaitPoll" => call.polls = call.waits + 1
        /\ call.pc = "awaitTimer" => call.polls = call.waits
        /\ (call.pc = "done" /\ call.polls > 0) => call.polls = call.waits + 1
        /\ (call.pc = "failed" /\ call.polls > 0) =>
              /\ call.polls = 60 /\ call.waits = 60
              /\ call.error =
                    "Failed to initialize vector database: Index failed to become ready within timeout period"
        /\ (call.pc = "failed" /\ call.polls = 0) =>
              call.error = "Failed to initialize vector database: Request failed"

\* C19: the wait of an initializeIndex call makes at most 60 polls and sets
\* at most 60 timers of 5 seconds (5 minutes); it ends at the first poll
\* that succeeds, a poll that fails being followed by a timer; after 60
\* failed polls the call fails with the timeout error; and, requests being
\* answered and timers firing, a running call always comes to an end.
C19_BoundedWait ==
    /\ []WaitBounded
    /\ IndexCallRunning ~> (vdb.call.pc \in {"done", "failed"})

\* A call failed with the timeout error after 60 polls.
C19_Witness ==
    /\ vdb.call.pc = "failed"
    /\ vdb.call.polls = 60 /\ vdb.call.waits = 60 /\ vdb.call.i = 60
    /\ vdb.call.creates = 1
    /\ vdb.call.error =
          "Failed to initialize vector database: " \o timeoutError

\* C20 as stated: a call that finds the index in the list issues no
\* createIndex and no poll, and the calls issue createIndex at most once.
C20_CreateIssuedOnce ==
    /\ vdb.call.sawExisting =>
          (vdb.call.creates = 0 /\ vdb.call.polls = 0 /\ vdb.call.waits = 0)
    /\ vdb.creates <= 1

\* C20, amended: a call that finds the index in the list issues no
\* createIndex and no poll; a call issues createIndex at most once; at most
\* one createIndex succeeds, every other one issued has failed or is still
\* awaited, and none is issued once one has succeeded or when the index was
\* there from the start.
C20_CreateSucceedsOnce ==
    /\ vdb.call.sawExisting =>
          (vdb.call.creates = 0 /\ vdb.call.polls = 0 /\ vdb.call.waits = 0)
    /\ vdb.call.creates <= 1
    /\ vdb.created <= 1
    /\ vdb.creates <= vdb.createFailures + 1
    /\ vdb.created = 1 => vdb.creates = vdb.createFailures + 1
    /\ (vdb.created = 0 /\ indexName \in vdb.indexes) => vdb.creates = 0

\* The first call created the index and the second call found it.
C20_Witness ==
    /\ vdb.started = 2 /\ vdb.creates = 1 /\ vdb.created = 1
    /\ vdb.call.pc = "done" /\ vdb.call.sawExisting
    /\ vdb.call.creates = 0 /\ vdb.call.polls = 0

\* The first position from `from` on at which s holds w, and 0 without one.
FirstAt(s, w, from) ==
    LET at == {i \in from..(Len(s) - Len(w) + 1) : HasAt(s, w, i)}
    IN  IF at = {} THEN 0 ELSE CHOOSE i \in at : \A j \in at : i <= j

\* sentences[k..] are found one after the other in chunks[c..], the first
\* of them in chunks[c] from position `from` on.
RECURSIVE InOrder(_, _, _, _, _)
InOrder(sentences, k, chunks, c, from) ==
    IF k > Len(sentences) THEN TRUE
    ELSE IF c > Len(chunks) THEN FALSE
    ELSE LET w == Trim(sentences[k])
             i == FirstAt(chunks[c].text, w, from)
         IN  IF i > 0 THEN InOrder(sentences, k + 1, chunks, c, i + Len(w))
             ELSE InOrder(sentences, k, chunks, c + 1, 1)

\* C21: every chunk chunkText returns has at most 1000 characters, unless
\* the text holds a sentence of more than 1000 characters.
C21_ChunkBound ==
    chunker.returned =>
        \/ \A k \in 1..Len(chunker.chunks) : Len(chunker.chunks[k].text) <= 1000
        \/ \E k \in 1..Len(Sentences(chunker.text)) :
              Len(Trim(Sentences(chunker.text)[k])) > 1000

\* C22: the trimmed sentences of the text are all found in the chunks
\* chunkText returns, in their order: each in the chunk of the one before
\* it and after it, or in a later chunk.
C22_NoSentenceDropped ==
    chunker.returned =>
        InOrder(Sentences(chunker.text), 1, chunker.chunks, 1, 1)

\* Three different sentences were put into more than one chunk.
C22_Witness ==
    /\ chunker.returned
    /\ Len(chunker.chunks) >= 2
    /\ LET sentences == Sentences(chunker.text)
       IN  /\ Len(sentences) = 3
           /\ \A j, k \in 1..3 : j # k => Trim(sentences[j]) # Trim(sentences[k])
           /\ ~Contains(chunker.chunks[1].text, Trim(sentences[3]))

Range(list) == {list[k] : k \in 1..Len(list)}

\* The files of the folder that hold nothing but white space.
BlankFiles == {f \in Range(ingest.files) : f.readable /\ Trim(f.text) = ""}

\* C23: chunkText returns no chunk for a text that is empty or white space
\* only; a run of processAllDocuments stores nothing for a file with such
\* content, logs no error for a text file with such content and does not
\* fail at it: the file counts as gone through, without text.
C23_BlankInputNoChunks ==
    \A f \in BlankFiles :
        /\ chunkText(f.text, f.name) = <<>>
        /\ \A record \in Range(ingest.stored) : record.filename # f.name
        /\ toLowerCase(extname(f.name)) \in {".txt", ".md"} =>
              /\ ("Error processing text file " \o f.name) \notin Range(ingest.logged)
              /\ ingest.pc = "failed" => ingest.supportedFiles[ingest.file].name # f.name
              /\ \A p \in Range(ingest.processed) :
                    p.name = f.name => p.outcome = "no text"

\* The run is over: it went past a text file of white space and stored the
\* chunks of the file after it.
C23_Witness ==
    /\ ingest.pc = "done"
    /\ Len(ingest.files) = 4
    /\ ingest.files[1].text = " \n\t "
    /\ [name |-> "intro.txt", outcome |-> "no text"] \in Range(ingest.processed)
    /\ [name |-> "PINS.MD", outcome |-> "processed"] \in Range(ingest.processed)
    /\ ingest.upserts = 2 /\ Len(ingest.stored) = 2

\* C25: a run of processAllDocuments does not fail, whatever fails for one
\* file, and when it is over every supported file was gone through or has
\* its error logged.
C25_BatchSurvivesFailure ==
    /\ ingest.pc # "failed"
    /\ ingest.pc = "done" =>
          \A f \in Range(ingest.supportedFiles) :
              \/ \E p \in Range(ingest.processed) : p.name = f.name
              \/ FileLog(f) \in Range(ingest.logged)

\* The contents of the messages of the completion request of call r.
RequestContents(r) == {m.content.text : m \in Range(LLMRequest(r))}

\* C24 as stated: the request holds nothing but the composed instruction
\* and the current user message.
C24_OnlyInstructionAndMessage ==
    \A r \in Requests :
        pc[r] = "awaitLLM" =>
            RequestContents(r) \subseteq
                {systemPrompt(JoinContents(frame[r].finalDocs), frame[r].message),
                 frame[r].message}

\* C24, amended: the request of a call that awaits the language model is
\* the default system prompt of ChatbotService followed by one user
\* message, the composed instruction (which holds the retrieved context
\* and the current user message); no message of the session is in it.
C24_NoHistorySent ==
    \A r \in Requests :
        pc[r] = "awaitLLM" =>
            /\ LLMRequest(r) =
                  << [role |-> "system", content |-> [text |-> defaultSystemPrompt]],
                     [role |-> "user",
                      content |-> [text |-> systemPrompt(JoinContents(frame[r].finalDocs),
                                                         frame[r].message)]] >>
            /\ Contains(LLMRequest(r)[2].content.text,
                        "User Question: " \o frame[r].message)
            /\ \A m \in Range(messages[frame[r].session]) :
                  m.content \notin RequestContents(r)

\* A call awaits the language model for a session that holds an earlier
\* user message and its reply.
C24_Witness ==
    \E r \in Requests :
        /\ pc[r] = "awaitLLM"
        /\ Len(messages[frame[r].session]) >= 3
        /\ \E k \in 1..Len(messages[frame[r].session]) :
              /\ messages[frame[r].session][k].role = "assistant"
              /\ messages[frame[r].session][k].req # r

\* The vector features were given up, or were never there.
Degraded == startup.reason # "none"

SearchesIn(log) == SelectSeq(log, LAMBDA c : c.op = "search")

\* What holds at any time of initialize and the degraded mode.
DegradedState ==
    /\ (~startup.pineconeApiKey \/ ~startup.pineconeIndexName) =>
          startup.reason = "notConfigured"
    /\ Degraded => (~vectorService /\ ~startup.documentService)
    /\ Degraded => startup.ingestions = 0
    /\ Degraded => \A r \in Requests : SearchesIn(calls[r]) = <<>>
    /\ startup.pc = "failed" => ~startup.chatbotConnected
    /\ (Degraded /\ startup.chatbotConnected) =>
          startup.pc \in {"testChatbot", "testEmbedding", "done"}

\* What holds of every step taken once initialize is over in degraded mode.
DegradedStep ==
    (Degraded /\ startup.pc = "done") =>
        /\ Degraded' /\ startup'.pc = "done"
        /\ startup'.ingestions = startup.ingestions
        /\ \A r \in Requests :
              /\ SearchesIn(calls'[r]) = SearchesIn(calls[r])
              /\ (pc[r] = "idle" /\ pc'[r] # "idle" /\ frame'[r].session # NoSession) =>
                    /\ pc'[r] = "done" /\ calls'[r] = <<>>
                    /\ messages'[frame'[r].session] =
                          messages[frame'[r].session]
                             \o <<createUserMessage(r, frame'[r].message),
                                  frame'[r].response>>
                    /\ frame'[r].response.content \in
                          IF isGreeting(frame'[r].message) THEN GreetingReplies
                          ELSE IF isThankYou(frame'[r].message) THEN {thankYouResponse}
                          ELSE {irrelevantQueryResponse}

\* C26: without the Pinecone key or index name, or once initializeIndex or
\* the connection test of the vector database has failed, the vector and
\* document services are unset and initialize goes on to its end (it fails
\* only when the language model cannot be reached); once it is over, no
\* call has issued or issues a search, no document run is started, and a
\* message sent to a session is answered at once: a greeting or thanks
\* with its template, any other message with the refusal sentence.
C26_DegradedMode == []DegradedState /\ [][DegradedStep]_vars

\* initialize is over after the connection test of the vector database
\* failed; a question sent to a session was refused, and processDocuments
\* was refused.
C26_Witness ==
    /\ startup.pc = "done" /\ startup.reason = "connectionFailed"
    /\ startup.refused > 0
    /\ pc[1] = "done" /\ frame[1].site = "noVectorService"
    /\ frame[1].message = "What is the maximum voltage?"

\* C27: the type tag partitions the search space: a document search never
\* returns a message record, and a message search (searchSimilarMessages,
\* getChatContext), with or without user and session filters, never
\* returns a document record.
C27_TypePartition ==
    LET types == {store.last.results[i].metadata.type :
                     i \in 1..Len(store.last.results)}
    IN  /\ store.last.op = "searchDocuments" => types \subseteq {"document"}
        /\ store.last.op \in {"searchSimilarMessages", "getChatContext"} =>
              "document" \notin types

\* C28: every vector handed to the vector database, stored by an upsert or
\* used as a query vector, has 384 entries, in deleteSession too.
C28_VectorLength ==
    /\ \A id \in DOMAIN store.index :
          store.index[id] # Absent => store.index[id].dimension = ModelDimension
    /\ store.last.op # "none" => store.last.vector = ModelDimension


\* C29: a sendMessage call embeds at most once and asks the language model
\* for a completion at most once; after a search that threw and after the
\* language-model call it makes no further call; and a second search is
\* made only right after a first one that came back without results.
C29_NoInternalRetry ==
    \A r \in Requests :
        LET log == calls[r]
            Made(op) == Len(SelectSeq(log, LAMBDA c : c.op = op))
        IN  /\ Made("embed") <= 1
            /\ Made("llm") <= 1
            /\ Made("search") <= 2
            /\ \A i \in 1..Len(log) :
                  /\ (log[i].op = "search" /\ log[i].status = "error") => i = Len(log)
                  /\ log[i].op = "llm" => i = Len(log)
                  /\ (log[i].op = "search" /\ i < Len(log) /\ log[i + 1].op = "search")
                        => log[i].status = "ok" /\ log[i].found = 0
            /\ (Done(r) /\ frame[r].site = "catch" /\ log # <<>>) =>
                  log[Len(log)].op = "llm"

\* The language-model call of a request failed after one embedding and one
\* successful search: the apology is returned and the log ends with that
\* one call.
C29_Witness ==
    \E r \in Requests :
        /\ Done(r) /\ frame[r].site = "catch"
        /\ frame[r].response.content = apologyResponse
        /\ Len(calls[r]) = 3
        /\ calls[r][1].op = "embed"
        /\ calls[r][2].op = "search" /\ calls[r][2].status = "ok"
        /\ calls[r][3].op = "llm"

\* C30: no step changes, removes or reorders a message already in the list
\* of a session that stays in the Map: the list before the step is a prefix
\* of the list after it, so the order of the list is the order of appends.
C30_AppendOnly ==
    [][\A s \in sessions \cap sessions' :
           /\ Len(messages[s]') >= Len(messages[s])
           /\ SubSeq(messages[s]', 1, Len(messages[s])) = messages[s]]_vars

\* A session whose list holds the messages of two calls in the order of
\* their appends, the second call's user message after the first reply.
C30_Witness ==
    \E s \in sessions :
        /\ Len(messages[s]) >= 4
        /\ messages[s][1].role = "user"
        /\ messages[s][2].role = "assistant"
        /\ messages[s][3].role = "user"
        /\ messages[s][3].req # messages[s][1].req
        /\ messages[s][4].role = "assistant"


\* C31: once initialize is over, the default model of the service is the
\* first preferred model that the backend listed as available, and the
\* original default only when it listed none of them.
C31_PreferredModelSelected ==
    Ready => startup.defaultModel = SelectModel(defaultModel, startup.models)

\* C37: in SimpleChatService, once no sendMessage call is running, whether
\* the calls returned or threw, every user message in the list of a session
\* is followed by an assistant message.
C37_EveryUserMessageAnswered ==
    (\A r \in Requests : simple.call[r].pc # "awaitCompletion") =>
        \A s \in simple.sessions :
            \A i \in 1..Len(simple.messages[s]) :
                simple.messages[s][i].role = "user" =>
                    /\ i < Len(simple.messages[s])
                    /\ simple.messages[s][i + 1].role = "assistant"


\* The stage of the pipeline a call is in, from where it waits or from the
\* return statement it took.  Classification is done in the step that
\* receives the message, and the context is composed in the step that
\* invokes the model.
Stage(p, site) ==
    IF p = "idle" THEN "Received"
    ELSE IF p \in {"awaitEmbed", "awaitStrict", "awaitRelaxed"} THEN "Retrieving"
    ELSE IF p = "awaitLLM" THEN "ModelInvoked"
    ELSE IF site = "greeting" THEN "GreetingReply"
    ELSE IF site = "thanks" THEN "ThanksReply"
    ELSE IF site = "answered" THEN "Answered"
    ELSE IF site = "catch" THEN "Apology"
    ELSE "Refused"

\* The transitions of the state machine as the pipeline is described.
StatedTransitions ==
    {<<"Received", "GreetingReply">>, <<"Received", "ThanksReply">>,
     <<"Received", "Retrieving">>, <<"Retrieving", "Refused">>,
     <<"Retrieving", "ModelInvoked">>, <<"ModelInvoked", "Answered">>}

\* The passages' contents from the first to the n-th, with a blank line
\* between two of them.
RECURSIVE BlankLineJoined(_, _)
BlankLineJoined(docs, n) ==
    IF n = 0 THEN ""
    ELSE IF n = 1 THEN docs[1].content
    ELSE BlankLineJoined(docs, n - 1) \o "\n\n" \o docs[n].content

\* The language model is invoked only after a search that returned at least
\* one passage, with the contents of the passages in rank order.
InvokedWithContext ==
    \A r \in Requests :
        pc[r] = "awaitLLM" =>
            LET docs == frame[r].finalDocs
                last == Searches(r)[Len(Searches(r))]
            IN  /\ Len(Searches(r)) >= 1
                /\ last.status = "ok" /\ last.found >= 1
                /\ Len(docs) = last.found
                /\ \A i, j \in 1..Len(docs) : i < j => docs[i].id < docs[j].id
                /\ frame[r].prompt.context = BlankLineJoined(docs, Len(docs))

\* The reply of a call that has just ended is the last message of the
\* session the call found.
Appended(r) ==
    LET s == frame'[r].session
    IN  /\ s # NoSession
        /\ messages'[s] # <<>>
        /\ messages'[s][Len(messages'[s])] = frame'[r].response
        /\ frame'[r].response.role = "assistant"

\* C32 as stated: a call moves along the stated transitions only, ends with
\* its reply appended, and the model is invoked only with retrieved context.
C32_StatedPipeline ==
    /\ []InvokedWithContext
    /\ [][\A r \in Requests :
             LET from == Stage(pc[r], frame[r].site)
                 to == Stage(pc'[r], frame'[r].site)
             IN  from # to =>
                    /\ <<from, to>> \in StatedTransitions
                    /\ pc'[r] = "done" => Appended(r)]_vars

\* C32, amended: a call moves along the stated transitions and three more:
\* from Received to the refusal when there is no vector service, from
\* Received to the apology when its session is not in the Map, and from
\* ModelInvoked to the apology; it ends with its reply appended to its
\* session unless it ended with the apology and the session is not in the
\* Map; a refusal after retrieving follows a search that threw or found
\* nothing; and the model is invoked only after a search that returned at
\* least one passage, with the passages' contents in rank order joined by
\* blank lines.
C32_Pipeline ==
    /\ []InvokedWithContext
    /\ [][\A r \in Requests :
             LET from == Stage(pc[r], frame[r].site)
                 to == Stage(pc'[r], frame'[r].site)
             IN  from # to =>
                    /\ \/ <<from, to>> \in StatedTransitions
                       \/ /\ <<from, to>> = <<"Received", "Refused">>
                          /\ ~vectorService
                       \/ /\ <<from, to>> = <<"Received", "Apology">>
                          /\ frame'[r].sessionId \notin sessions
                       \/ <<from, to>> = <<"ModelInvoked", "Apology">>
                    /\ (from = "Received" /\ to \in {"GreetingReply", "ThanksReply"})
                          => ShortCircuit(frame'[r].message)
                                = (IF to = "GreetingReply" THEN "greeting" ELSE "thanks")
                    /\ (from = "Received" /\ to = "Retrieving")
                          => ShortCircuit(frame'[r].message) = "none" /\ vectorService
                    /\ (from = "Retrieving" /\ to = "Refused") =>
                          LET last == Searches(r)'[Len(Searches(r)')]
                          IN  \/ last.status = "error"
                              \/ last.status = "ok" /\ last.found = 0
                    /\ (pc'[r] = "done"
                        /\ (to # "Apology" \/ frame'[r].sessionId \in sessions))
                          => Appended(r)]_vars

\* One call was answered with a greeting; the next waits for the language
\* model with the context of two passages in rank order.
C32_Witness ==
    /\ pc[1] = "done" /\ frame[1].site = "greeting"
    /\ pc[2] = "awaitLLM"
    /\ Len(frame[2].finalDocs) = 2
    /\ frame[2].prompt.context =
          frame[2].finalDocs[1].content \o "\n\n" \o frame[2].finalDocs[2].content


\* C33: a sendMessage call that has started is eventually over, and a call
\* that is over has returned an assistant message; a call awaits at most
\* four backend calls.
C33_Terminates ==
    /\ \A r \in Requests :
          (pc[r] # "idle") ~> (pc[r] = "done" /\ frame[r].response.role = "assistant")
    /\ [](\A r \in Requests :
            /\ Len(calls[r]) <= 4
            /\ pc[r] = "done" => frame[r].response.role = "assistant")

\* A call that went through the embedding, both searches and the language
\* model has returned the answer, while the other call is still waiting.
C33_Witness ==
    \E r, q \in Requests :
        /\ pc[r] = "done" /\ frame[r].site = "answered"
        /\ Len(calls[r]) = 4
        /\ InFlight(q)

\* C34: the chunks chunkText returns carry chunkIndex 0, 1, ..., n-1 in
\* order, the id of each is the file name, "-chunk-" and its chunkIndex,
\* so that no two chunks share an id, and totalChunks of each is n.
C34_ChunkIdentity ==
    chunker.returned =>
        LET chunks == chunker.chunks
            n == Len(chunks)
        IN  /\ \A k \in 1..n :
                  /\ chunks[k].metadata.chunkIndex = k - 1
                  /\ chunks[k].metadata.filename = chunker.filename
                  /\ chunks[k].id = chunker.filename \o "-chunk-" \o ToString(k - 1)
                  /\ chunks[k].metadata.totalChunks = n
            /\ \A j, k \in 1..n : j # k => chunks[j].id # chunks[k].id

\* chunkText returned three chunks or more.
C34_Witness ==
    /\ chunker.returned
    /\ Len(chunker.chunks) >= 3
    /\ chunker.chunks[3].id = chunker.filename \o "-chunk-2"

\* C35: a call one of whose searches threw is over at once: it returned the
\* refusal sentence, not the apology, that message is in the list of the
\* session it found, the failed search is the last call it made, and it
\* made no call of the language model.
C35_RetrievalFailureRefused ==
    \A r \in Requests :
        (\E i \in 1..Len(calls[r]) :
            calls[r][i].op = "search" /\ calls[r][i].status = "error") =>
            /\ pc[r] = "done" /\ frame[r].site = "searchError"
            /\ calls[r][Len(calls[r])].op = "search"
            /\ calls[r][Len(calls[r])].status = "error"
            /\ ~CalledLLM(r)
            /\ frame[r].response = createAssistantMessage(r, irrelevantQueryResponse)
            /\ frame[r].response.content # apologyResponse
            /\ \E i \in 1..Len(messages[frame[r].session]) :
                  messages[frame[r].session][i] = frame[r].response

\* The strict search of a call threw: the call made no other search and
\* returned the refusal sentence.
C35_Witness ==
    \E r \in Requests :
        /\ pc[r] = "done" /\ frame[r].site = "searchError"
        /\ Len(calls[r]) = 2
        /\ calls[r][2].status = "error"
        /\ frame[r].response.content = irrelevantQueryResponse

\* C36: a session that was deleted is never in the Map again: a step adds
\* only the session createSession has just made, under an id not used
\* before; a step that changes the list of a session is a step of a call
\* made for that session id; and a call whose session is deleted while it
\* waits still ends and returns an assistant message.
C36_DeletedStaysDeleted ==
    /\ [][/\ sessions' \ sessions \subseteq {created + 1}
          /\ created' >= created
          /\ \A s \in SessionIds :
                messages'[s] # messages[s] =>
                    \E r \in Requests :
                        /\ pc'[r] # pc[r]
                        /\ frame'[r].sessionId = s]_vars
    /\ [](\A s \in sessions : s <= created)
    /\ \A r \in Requests :
          (InFlight(r) /\ frame[r].sessionId \notin sessions)
             ~> (pc[r] = "done" /\ frame[r].response.role = "assistant")

\* A call returned the apology after its session was deleted while it was
\* waiting for the language model; the session is not in the Map.
C36_Witness ==
    \E r \in Requests :
        /\ pc[r] = "done" /\ frame[r].site = "catch"
        /\ CalledLLM(r)
        /\ frame[r].sessionId # NoSession
        /\ frame[r].sessionId <= created
        /\ frame[r].sessionId \notin sessions
        /\ frame[r].response.role = "assistant"

\* C38: every index the hash fallback writes at, charCode % D for a
\* character and |wordHash| % D for a word, is within 0..D-1, also when the
\* 32-bit hash of the word is negative or is -2^31; the vector keeps its D
\* entries.
C38_IndexInRange ==
    \A c \in Requests :
        LET call == embedder.call[c]
        IN  (call.pc = "done" /\ call.source = "fallback") =>
                /\ call.embedding.length = FallbackDimension
                /\ Len(call.embedding.writes)
                      = Len(call.text) + Len(SplitWords(toLowerCase(call.text), ""))
                /\ \A i \in 1..Len(call.embedding.writes) :
                      /\ call.embedding.writes[i].index >= 0
                      /\ call.embedding.writes[i].index < FallbackDimension

\* The fallback embedded a word whose hash is -2^31 (upper bits 2^15, lower
\* bits 0) and wrote at index 2^31 % 384 = 128, and a call embedded a text
\* with a word of another negative hash.
C38_Witness ==
    \E c, d \in Requests :
        /\ embedder.call[c].pc = "done" /\ embedder.call[c].source = "fallback"
        /\ embedder.call[c].text = "polygenelubricants"
        /\ WordHash(embedder.call[c].text, <<0, 0>>) = <<32768, 0>>
        /\ embedder.call[c].embedding.writes[19].index = 128
        /\ embedder.call[d].pc = "done" /\ embedder.call[d].source = "fallback"
        /\ embedder.call[d].text = "Capacitor bank"
        /\ WordHash("capacitor", <<0, 0>>)[1] >= 32768
        /\ embedder.call[d].embedding.writes[15].index = 62

====
